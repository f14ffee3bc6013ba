------------------------------- MODULE Device -------------------------------
(***************************************************************************)
(* The threads of the program and the network: main() of main.cpp from     *)
(* network_connect to its loop, the AWS thread of awsiot.cpp as it         *)
(* connects and reconnects (Shadow has the messages), and the power save   *)
(* thread.  The AWS thread has the higher priority: when it spins, nobody  *)
(* else of these runs.  Only the AWS thread uses the client; main appends  *)
(* what it reports to a string (awsiot_update) and does not touch the      *)
(* network once it is in its loop.                                         *)
(*                                                                         *)
(* A NULL pointer that is used is undefined: it is recorded in crashed, and*)
(* not followed further.                                                   *)
(***************************************************************************)
EXTENDS NetSuspend

VARIABLES
    pc, tries,      \* main, and the count of its loops
    beat,           \* changes with every pass of the main loop
    ptr, link,      \* network_interface is not NULL; it is connected
    known,          \* the credentials are set
    clock,          \* what set_time was given
    awsPc, awsNet,  \* the AWS thread, and its argument network (or _network)
    nested,         \* it is in the reconnection of awsiot_shadow_cycle
    client, topics, \* the MQTT client and its subscriptions
    certs,          \* aws_config.h holds certificates
    crashed

mainVars == <<pc, tries, beat, known, clock>>
awsVars  == <<awsPc, awsNet, nested, topics>>
vars == <<mainVars, ptr, link, awsVars, client, certs, crashed, psVars>>

Tries    == 3   \* of network_connect
NtpTries == 5   \* of main

Init ==
    /\ pc = "start" /\ tries = 0 /\ beat = FALSE
    /\ ptr = FALSE /\ link = FALSE /\ known = FALSE
    /\ clock = "unset"
    /\ awsPc = "none" /\ awsNet = FALSE /\ nested = FALSE
    /\ client = "null" /\ topics = {}
    /\ certs \in BOOLEAN
    /\ crashed = FALSE
    /\ PsStart

(* while (!network) network_connect(), where that returns at once.         *)
Spins == awsPc = "waitNetwork" /\ ~ptr

Runs == ~crashed /\ ~Spins
-----------------------------------------------------------------------------
(* initNetworkInterface; the rest of the start-up is Boot's.               *)
Start ==
    /\ pc = "start" /\ Runs
    /\ pc' = "wifi" /\ tries' = 0 /\ ptr' = TRUE
    /\ UNCHANGED <<beat, link, known, clock, awsVars, client, certs, crashed, psVars>>

(* One of the three tries of network_connect: a scan, which may find the   *)
(* network and set the credentials, and a connection.                      *)
ConnectTry ==
    /\ pc = "wifi" /\ Runs
    /\ \E found, joins \in BOOLEAN :
        /\ known' = (known \/ found)
        /\ link' = (joins /\ known')
        /\ IF link' \/ tries + 1 = Tries
           THEN pc' = "ntp" /\ tries' = 0 /\ ptr' = link'
           ELSE tries' = tries + 1 /\ UNCHANGED <<pc, ptr>>
    /\ UNCHANGED <<beat, clock, awsVars, client, certs, crashed, psVars>>

NtpTriesForEver ==   \* mutant
    /\ pc = "ntp" /\ Runs
    /\ ptr
    /\ clock' \in {"right", "wrong"}
    /\ pc' = "aws" /\ tries' = 0
    /\ UNCHANGED <<beat, ptr, link, known, awsVars, client, certs, crashed, psVars>>

(* NTPClient::get_timestamp: the server's time; the code of an error of    *)
(* the look-up, of the socket or of a short answer; no interface.          *)
Timestamp == IF ptr THEN {"right", "wrong"} ELSE {"unavailable"}

(* Only the missing interface is tried again; any other code is set as the *)
(* time.                                                                   *)
NtpTry ==
    /\ pc = "ntp" /\ Runs
    /\ \E t \in Timestamp :
          IF t = "unavailable"
          THEN /\ tries' = tries + 1
               /\ pc' = IF tries' = NtpTries THEN "aws" ELSE "ntp"
               /\ UNCHANGED clock
          ELSE clock' = t /\ pc' = "aws" /\ tries' = 0
    /\ UNCHANGED <<beat, ptr, link, known, awsVars, client, certs, crashed, psVars>>

(* awsiot_connect starts the thread, which runs at once, and returns no    *)
(* value: what main makes of it is open.                                   *)
AwsConnect ==
    /\ pc = "aws" /\ Runs
    /\ awsNet' = ptr
    /\ awsPc' = IF ptr THEN "new" ELSE "waitNetwork"
    /\ pc' \in {"sound", "ended"}
    /\ UNCHANGED <<tries, beat, ptr, link, known, clock, nested, client, topics, certs,
                   crashed, psVars>>

SoundInit ==
    /\ pc = "sound" /\ Runs
    /\ pc' = "loop"
    /\ psPc' = "call"
    /\ UNCHANGED <<tries, beat, ptr, link, known, clock, awsVars, client, certs, crashed,
                   args, psState, callback, bits, suspended, core, sleepLocks>>

LoopPublishes ==   \* mutant: what the pass reports is published by main itself
    /\ pc = "loop" /\ Runs
    /\ beat' = ~beat
    /\ IF client = "null" THEN UNCHANGED psVars ELSE UseCore("TX")
    /\ UNCHANGED <<pc, tries, known, clock, ptr, link, awsVars, client, certs, crashed>>

(* A pass of the loop: the scan, the sensors, sound_update, the clock.     *)
LoopPass ==
    /\ pc = "loop" /\ Runs
    /\ beat' = ~beat
    /\ UNCHANGED <<pc, tries, known, clock, ptr, link, awsVars, client, certs, crashed, psVars>>

Main == Start \/ ConnectTry \/ NtpTry \/ AwsConnect \/ SoundInit \/ LoopPass

(* hw_stats, every five seconds on the shared event queue: it prints the   *)
(* statistics of the interface without a look at the pointer.              *)
Statistics ==
    /\ pc # "start" /\ ~ptr /\ Runs
    /\ crashed' = TRUE
    /\ UNCHANGED <<mainVars, ptr, link, awsVars, client, certs, psVars>>
-----------------------------------------------------------------------------
AwsUnchanged == UNCHANGED <<mainVars, certs>>

(* awsiot_connect_thread with no interface.  network_connect works on      *)
(* network_interface; the argument that the loop tests never changes.      *)
AwsWaits ==
    /\ awsPc = "waitNetwork" /\ ~Spins /\ ~crashed
    /\ UseCore("TX")
    /\ link' \in BOOLEAN /\ ptr' = link'
    /\ UNCHANGED <<awsVars, client, crashed>> /\ AwsUnchanged

(* An old client is disconnected and deleted.                              *)
AwsDrops ==
    /\ awsPc = "drop" /\ ~crashed
    /\ UseCore("TX")
    /\ link' \in IF link THEN {TRUE} ELSE BOOLEAN
    /\ client' = "null" /\ topics' = {}
    /\ awsPc' = "new"
    /\ UNCHANGED <<awsNet, nested, ptr, crashed>> /\ AwsUnchanged

Return == awsPc' = IF nested THEN "cycle" ELSE "ended"

AwsNew ==
    /\ awsPc = "new" /\ ~crashed
    /\ IF certs THEN client' = "made" /\ awsPc' = "connect"
                ELSE UNCHANGED client /\ Return
    /\ UNCHANGED <<awsNet, nested, topics, ptr, link, crashed, psVars>> /\ AwsUnchanged

AwsConnects ==
    /\ awsPc = "connect" /\ ~crashed
    /\ UseCore("TX")
    /\ \/ client' = "connected" /\ awsPc' = "subscribe"
       \/ client' = "null" /\ Return
    /\ UNCHANGED <<awsNet, nested, topics, ptr, link, crashed>> /\ AwsUnchanged

(* Either subscription may fail, which changes nothing else.               *)
AwsSubscribes ==
    /\ awsPc = "subscribe" /\ ~crashed
    /\ UseCore("TX")
    /\ topics' \in SUBSET (IF nested THEN {"update"} ELSE {"get", "update"})
    /\ awsPc' = "cycle"
    /\ UNCHANGED <<awsNet, nested, client, ptr, link, crashed>> /\ AwsUnchanged

(* A cycle: client->yield() with whatever client is.                       *)
AwsCycle ==
    /\ awsPc = "cycle" /\ ~crashed
    /\ IF client = "null"
       THEN crashed' = TRUE /\ UNCHANGED <<psVars, awsPc, awsNet, nested>>
       ELSE /\ UseCore("TX")
            /\ UNCHANGED crashed
            /\ \/ UNCHANGED <<awsPc, awsNet, nested>>
               \/ /\ nested' = TRUE /\ awsNet' = link
                  /\ awsPc' = IF link THEN "drop" ELSE "waitNetwork"
    /\ UNCHANGED <<client, topics, ptr, link>> /\ AwsUnchanged

Aws == AwsWaits \/ AwsDrops \/ AwsNew \/ AwsConnects \/ AwsSubscribes \/ AwsCycle
-----------------------------------------------------------------------------
Others == <<mainVars, awsVars, client, certs>>

PowerSave ==
    /\ Runs
    /\ IF psPc = "call" /\ ~ptr
       THEN crashed' = TRUE /\ UNCHANGED psVars
       ELSE PsStep /\ UNCHANGED crashed
    /\ UNCHANGED <<Others, ptr, link>>

Frame == ~crashed /\ link /\ Receive /\ UNCHANGED <<Others, ptr, link, crashed>>

LinkLost ==
    /\ ~crashed /\ link
    /\ link' = FALSE
    /\ UNCHANGED <<Others, ptr, crashed, psVars>>

Next == Main \/ Statistics \/ Aws \/ PowerSave \/ Frame \/ LinkLost

(* Every thread that can run does; a lock that is free again and again is  *)
(* got in the end (the mutex queues its waiters).  Frames are the          *)
(* network's: no fairness.                                                 *)
Fairness == SF_vars(Main) /\ SF_vars(Aws) /\ SF_vars(PowerSave)

Spec == Init /\ [][Next]_vars /\ Fairness
-----------------------------------------------------------------------------
(* awsiot.h of awsiot_connect: its argument is the "Interface of already   *)
(* connected Mbed Network".                                                *)
ConnectedFirst == [][pc = "aws" /\ pc' # "aws" => awsNet']_vars

(* The microcontroller never sleeps on activity that came in before the    *)
(* network stack was suspended: with frames or a sender's bits pending the *)
(* wait ends, and the core is given back.                                  *)
ActivityWakes == (suspended /\ bits # {}) ~> (~suspended \/ crashed \/ Spins)

(* The recorder's loop is reached and goes on for ever, whatever the time  *)
(* server and AWS answer and however often the link goes, but for three    *)
(* ends: undefined behaviour, the spinning AWS thread and a main that took *)
(* awsiot_connect for failed.  It does not wait for the core, which a      *)
(* suspension may keep for good (main.cpp:270).                            *)
RecorderServed ==
    \/ <>(crashed \/ Spins \/ pc = "ended")
    \/ []<>beat /\ []<>~beat
=============================================================================
