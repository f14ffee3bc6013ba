------------------------------- MODULE Shadow -------------------------------
(***************************************************************************)
(* awsiot.cpp with the part of hw.cpp that feeds it: the changes of buttons*)
(* and sliders that the main loop reports, the string in which they wait,  *)
(* the AWS thread that publishes it to the shadow of the device, and what  *)
(* the shadow sends back.                                                  *)
(*                                                                         *)
(* The AWS thread has the higher priority, so one of its actions runs from *)
(* one point where it blocks to the next: the semaphore, publish, connect, *)
(* yield, the delay.  The main loop runs in between, one access at a time. *)
(* The shadow service and the connection are external.  The model starts   *)
(* when the thread has connected and asked for the shadow.                 *)
(***************************************************************************)
EXTENDS Integers, Sequences, SequencesExt

CONSTANTS
    Buttons, Sliders,
    KeyOrder,     \* their names in the order of a map<string,JSON>
    Values,       \* the values of buttons and sliders
    Initial,      \* the value of each after start-up
    MaxInputs,    \* bound: touches and remote commands
    MaxChannel,   \* bound: messages under way in one direction
    MaxNest,      \* bound: callbacks nested in one another's yield
    MaxFailures   \* bound: failures of the connection

Names == Buttons \cup Sliders

ASSUME NamesAssumption ==
    /\ Buttons \cap Sliders = {}
    /\ Initial \in [Names -> Values]
    /\ KeyOrder \in Seq(Names)
    /\ \A n \in Names : \E k \in DOMAIN KeyOrder :
          KeyOrder[k] = n /\ \A l \in DOMAIN KeyOrder \ {k} : KeyOrder[l] # n
ASSUME BoundsAssumption ==
    /\ MaxInputs \in Nat /\ MaxChannel \in Nat /\ MaxNest \in Nat
    /\ MaxFailures \in Nat

VARIABLES
    hw,             \* hw_button and hw_slider
    hw_aws_publish,
    shadow_status,  \* the string, as a sequence of tokens
    sem,            \* awsiot_sem
    client,         \* FALSE when it is NULL
    aws,            \* where the AWS thread blocks; "holding" and "lost" are the
                    \* first loop of awsiot_connect_thread, with and without
                    \* the semaphore; "again" is a reconnection without it
    payload,        \* the message being published
    stack,          \* documents of the callbacks that wait in their yield
    main,           \* the next step of the main loop's report, or "idle"
    report,         \* <<name, value>> that the main loop is reporting
    held,           \* tokens its try_acquire took
    up,             \* messages on their way to the shadow
    down,           \* documents on their way to the device
    reported,       \* the reported state in the shadow
    inputs,         \* touches and remote commands so far
    contended,      \* history: a try_acquire has failed
    failures        \* how often the connection has failed

hwVars    == <<hw, hw_aws_publish>>
awsVars   == <<client, aws, payload, stack>>
mainVars  == <<main, report, held>>
cloudVars == <<up, down, reported>>
history   == <<inputs, contended, failures>>
vars == <<hwVars, shadow_status, sem, awsVars, mainVars, cloudVars, history>>

(* The string is a sequence of the tokens that awsiot_update and the cycle *)
(* put into it; a key comes with the comma in front of it.                 *)
Prefix        == [t |-> "prefix"]
Suffix        == [t |-> "suffix"]
Key(n, comma) == [t |-> "key", n |-> n, comma |-> comma]
Value(v)      == [t |-> "value", v |-> v]

AddedKeyAlways(s, n) == Append(s, Key(n, TRUE))    \* mutant: no test of empty()
AddedKey(s, n)       == Append(s, Key(n, s # <<>>))

(* The JSON the shadow service accepts.                                    *)
WellFormed(p) ==
    /\ Len(p) >= 4 /\ Len(p) % 2 = 0
    /\ p[1] = Prefix /\ p[Len(p)] = Suffix
    /\ \A i \in 2 .. Len(p) - 1 :
          IF i % 2 = 0 THEN p[i].t = "key" /\ p[i].comma = (i > 2)
                       ELSE p[i].t = "value"

(* What a message says of a name: its last entry counts.                   *)
Says(p, n) == {i \in 2 .. Len(p) - 2 : p[i].t = "key" /\ p[i].n = n}
State(p)   == [n \in {m \in Names : Says(p, m) # {}} |->
                  p[(CHOOSE i \in Says(p, n) : \A j \in Says(p, n) : j <= i) + 1].v]
-----------------------------------------------------------------------------
Init ==
    /\ hw = Initial /\ hw_aws_publish = FALSE
    /\ shadow_status = <<>>
    /\ sem = 1
    /\ client = TRUE /\ aws = "get" /\ payload = <<>> /\ stack = <<>>
    /\ main = "idle" /\ report = <<>> /\ held = 0
    /\ reported \in [Names -> Values]
    /\ up = <<>> /\ down = <<>>
    /\ inputs = 0 /\ contended = FALSE /\ failures = 0
-----------------------------------------------------------------------------
(* The main loop runs while the AWS thread is blocked.                     *)
MainRuns == aws \in {"get", "publish", "reconnect", "holding", "lost", "yield",
                       "again", "delay"}
            \/ (aws = "acquire" /\ sem = 0)

(* hw_set_button and hw_set_slider of a new value, then awsiot_update by   *)
(* way of hw_sendAWSCommand.                                               *)
Touch ==
    /\ MainRuns /\ main = "idle"
    /\ inputs < MaxInputs
    /\ inputs' = inputs + 1
    /\ \E n \in Names, v \in Values :
          /\ hw[n] # v
          /\ hw' = [hw EXCEPT ![n] = v]
          /\ report' = <<n, v>>
    /\ main' = "send"
    /\ UNCHANGED <<hw_aws_publish, shadow_status, sem, awsVars, held,
                   cloudVars, contended, failures>>

NotYetPublishing ==
    /\ MainRuns /\ main = "send" /\ ~hw_aws_publish
    /\ main' = "idle" /\ report' = <<>>
    /\ UNCHANGED <<hwVars, shadow_status, sem, awsVars, held, cloudVars, history>>

TryAcquire ==
    /\ MainRuns /\ main = "send" /\ hw_aws_publish
    /\ held' = IF sem > 0 THEN 1 ELSE 0
    /\ sem' = sem - held'
    /\ contended' = (contended \/ sem = 0)
    /\ main' = "key"
    /\ UNCHANGED <<hwVars, shadow_status, awsVars, report, cloudVars, inputs,
                   failures>>

AppendKey ==
    /\ MainRuns /\ main = "key"
    /\ shadow_status' = AddedKey(shadow_status, report[1])
    /\ main' = "value"
    /\ UNCHANGED <<hwVars, sem, awsVars, report, held, cloudVars, history>>

AppendValue ==
    /\ MainRuns /\ main = "value"
    /\ shadow_status' = Append(shadow_status, Value(report[2]))
    /\ main' = "release"
    /\ UNCHANGED <<hwVars, sem, awsVars, report, held, cloudVars, history>>

(* It gives a token back whether it took one or not.                       *)
ReleaseMissing ==   \* mutant
    /\ MainRuns /\ main = "release"
    /\ main' = "idle" /\ report' = <<>> /\ held' = 0
    /\ UNCHANGED <<hwVars, shadow_status, sem, awsVars, cloudVars, history>>

Release ==
    /\ MainRuns /\ main = "release"
    /\ sem' = sem + 1
    /\ main' = "idle" /\ report' = <<>> /\ held' = 0
    /\ UNCHANGED <<hwVars, shadow_status, awsVars, cloudVars, history>>
-----------------------------------------------------------------------------
(* awsiot_shadow_cycle.  A NULL client makes awsiot_publish return 1, which*)
(* is what it returns when it has published.                               *)
Acquire ==
    /\ aws = "delay" /\ sem = 0
    /\ aws' = "acquire"
    /\ UNCHANGED <<hwVars, shadow_status, sem, client, payload, stack, mainVars,
                   cloudVars, history>>

NothingToSend ==
    /\ aws \in {"delay", "acquire"} /\ sem > 0 /\ shadow_status = <<>>
    /\ aws' = "yield"
    /\ UNCHANGED <<hwVars, shadow_status, sem, client, payload, stack, mainVars,
                   cloudVars, history>>

Publish ==
    /\ aws \in {"delay", "acquire"} /\ sem > 0 /\ shadow_status # <<>>
    /\ LET message == <<Prefix>> \o shadow_status \o <<Suffix>>
       IN  IF client
           THEN /\ sem' = sem - 1
                /\ shadow_status' = message /\ payload' = message
                /\ aws' = "publish"
           ELSE /\ shadow_status' = <<>> /\ aws' = "yield"
                /\ UNCHANGED <<sem, payload>>
    /\ UNCHANGED <<hwVars, client, stack, mainVars, cloudVars, history>>

(* client->publish came back with success.                                 *)
PublishedHeld ==   \* mutant: the semaphore is released when it fails only
    /\ aws = "publish" /\ Len(up) < MaxChannel
    /\ up' = Append(up, payload)
    /\ shadow_status' = <<>>
    /\ payload' = <<>>
    /\ aws' = "yield"
    /\ UNCHANGED <<hwVars, sem, client, stack, mainVars, down, reported, history>>

Published ==
    /\ aws = "publish" /\ Len(up) < MaxChannel
    /\ up' = Append(up, payload)
    /\ shadow_status' = <<>>
    /\ sem' = sem + 1
    /\ payload' = <<>>
    /\ aws' = "yield"
    /\ UNCHANGED <<hwVars, client, stack, mainVars, down, reported, history>>

(* "/get": the shadow answers with what it holds.                          *)
GetPublished ==
    /\ aws = "get"
    /\ down' = Append(down, reported)
    /\ aws' = "delay"
    /\ UNCHANGED <<hwVars, shadow_status, sem, client, payload, stack, mainVars,
                   up, reported, history>>

(* The connection is lost: what was under way with it is gone.             *)
Disconnect ==
    /\ failures < MaxFailures
    /\ failures' = failures + 1
    /\ down' = <<>> /\ up' \in {up, <<>>}
    /\ UNCHANGED <<reported, inputs, contended>>

(* awsiot_connect_thread takes the old client down before it connects; with*)
(* the network gone it is called with NULL and never leaves its first loop.*)
PublishFails ==
    /\ aws = "publish"
    /\ \/ aws' = "reconnect" /\ client' = FALSE
       \/ aws' = "holding" /\ UNCHANGED client
    /\ Disconnect
    /\ UNCHANGED <<hwVars, shadow_status, sem, payload, stack, mainVars>>

(* The same with the semaphore free: "/get" or yield.                      *)
YieldFails ==
    /\ \/ aws = "get"
       \/ aws = "yield" /\ stack = <<>> /\ client
    /\ \/ aws' = "again" /\ client' = FALSE
       \/ aws' = "lost" /\ UNCHANGED client
    /\ Disconnect
    /\ UNCHANGED <<hwVars, shadow_status, sem, payload, stack, mainVars>>

(* Connected again or not, awsiot_publish returns -1: the string stays as  *)
(* it is, the semaphore is released.                                       *)
PublishReconnected ==
    /\ aws = "reconnect"
    /\ client' \in BOOLEAN
    /\ sem' = sem + 1
    /\ aws' = "yield"
    /\ payload' = <<>>
    /\ UNCHANGED <<hwVars, shadow_status, stack, mainVars, cloudVars, history>>

YieldReconnected ==
    /\ aws = "again"
    /\ client' \in BOOLEAN
    /\ aws' = "delay"
    /\ UNCHANGED <<hwVars, shadow_status, sem, payload, stack, mainVars, cloudVars,
                   history>>

(* client->yield.  A callback copies its message and yields itself before  *)
(* it applies it: a message that arrives meanwhile is applied first.       *)
Arrive ==
    /\ aws = "yield" /\ client /\ down # <<>>
    /\ Len(stack) < MaxNest
    /\ stack' = <<Head(down)>> \o stack
    /\ down' = Tail(down)
    /\ UNCHANGED <<hwVars, shadow_status, sem, client, aws, payload, mainVars,
                   up, reported, history>>

(* hw_aws_sync of a document: a slider is not looked at once a key was a   *)
(* button's.                                                               *)
News(doc) == {n \in DOMAIN doc :
                 /\ hw[n] # doc[n]
                 /\ n \in Sliders => DOMAIN doc \cap Buttons = {}}

(* Names in the order in which a map<string,JSON> is walked.               *)
InMapOrder(S) ==
    {s \in SeqOf(S, Len(KeyOrder)) :
        /\ \A n \in S : \E i \in DOMAIN s : s[i] = n
        /\ \A i, j \in DOMAIN s : i < j =>
              \E k, l \in DOMAIN KeyOrder :
                 k < l /\ KeyOrder[k] = s[i] /\ KeyOrder[l] = s[j]}

(* awsiot_update of each change, on the AWS thread: a key and a value each.*)
Reported(s, news, doc) ==
    s \o [k \in 1 .. 2 * Len(news) |->
             IF k % 2 = 1 THEN Key(news[(k + 1) \div 2], s # <<>> \/ k > 1)
                          ELSE Value(doc[news[k \div 2]])]

ApplyQuietly ==   \* mutant: what the cloud changes is not reported
    /\ aws = "yield" /\ stack # <<>>
    /\ LET doc == Head(stack)
       IN  hw' = [n \in Names |-> IF n \in News(doc) THEN doc[n] ELSE hw[n]]
    /\ hw_aws_publish' = TRUE
    /\ stack' = Tail(stack)
    /\ UNCHANGED <<shadow_status, sem, client, aws, payload, mainVars, cloudVars,
                   history>>

Apply ==
    /\ aws = "yield" /\ stack # <<>>
    /\ LET doc == Head(stack)
       IN  /\ hw' = [n \in Names |-> IF n \in News(doc) THEN doc[n] ELSE hw[n]]
           /\ IF hw_aws_publish /\ News(doc) # {}
              THEN /\ \E news \in InMapOrder(News(doc)) :
                        shadow_status' = Reported(shadow_status, news, doc)
                   /\ sem' = IF sem > 0 THEN sem ELSE 1
                   /\ contended' = (contended \/ sem = 0)
              ELSE UNCHANGED <<shadow_status, sem, contended>>
    /\ hw_aws_publish' = TRUE
    /\ stack' = Tail(stack)
    /\ UNCHANGED <<client, aws, payload, mainVars, cloudVars, inputs, failures>>

(* The outer yield returns.  With a NULL client it is undefined: the thread*)
(* may fault or go on.                                                     *)
YieldReturns ==
    /\ aws = "yield" /\ stack = <<>>
    /\ aws' \in (IF client THEN {"delay"} ELSE {"delay", "fault"})
    /\ UNCHANGED <<hwVars, shadow_status, sem, client, payload, stack, mainVars,
                   cloudVars, history>>
-----------------------------------------------------------------------------
(* The shadow service: it takes over a well-formed message and tells the   *)
(* device so with "/update/accepted".                                      *)
ShadowUpdate ==
    /\ up # <<>> /\ Len(down) < MaxChannel
    /\ up' = Tail(up)
    /\ IF WellFormed(Head(up))
       THEN LET doc == State(Head(up))
            IN  /\ reported' = [n \in Names |-> IF n \in DOMAIN doc THEN doc[n]
                                                ELSE reported[n]]
                /\ down' = Append(down, doc)
       ELSE UNCHANGED <<reported, down>>
    /\ UNCHANGED <<hwVars, shadow_status, sem, awsVars, mainVars, history>>

(* An application asks for a value: its message is accepted too.           *)
RemoteCommand ==
    /\ client /\ aws \notin {"holding", "lost", "fault"} /\ Len(down) < MaxChannel
    /\ inputs < MaxInputs
    /\ inputs' = inputs + 1
    /\ \E n \in Names, v \in Values : down' = Append(down, [x \in {n} |-> v])
    /\ UNCHANGED <<hwVars, shadow_status, sem, awsVars, mainVars, up, reported,
                   contended, failures>>
-----------------------------------------------------------------------------
MainNext == \/ NotYetPublishing \/ TryAcquire \/ AppendKey \/ AppendValue \/ Release
AwsNext  == \/ Acquire \/ NothingToSend \/ Publish \/ Published \/ GetPublished
            \/ PublishReconnected \/ YieldReconnected
            \/ Arrive \/ Apply \/ YieldReturns
Next == \/ Touch \/ MainNext
        \/ AwsNext \/ PublishFails \/ YieldFails
        \/ ShadowUpdate \/ RemoteCommand

(* The thread, the main loop and the service keep going; nobody has to     *)
(* touch or to command anything, and no failure has to come.               *)
Fairness == /\ WF_vars(MainNext) /\ WF_vars(AwsNext) /\ WF_vars(ShadowUpdate)

Spec == Init /\ [][Next]_vars /\ Fairness
-----------------------------------------------------------------------------
(* The token of awsiot_sem is never lost, whatever fails and whoever gave  *)
(* back a token he did not have (awsiot.cpp:600): the thread does not block*)
(* for ever in acquire.                                                    *)
TokenKept == sem + held + (IF aws \in {"publish", "reconnect", "holding"} THEN 1 ELSE 0) >= 1

(* What awsiot_update appends piece by piece (awsiot.cpp:587-594) and the  *)
(* cycle frames (183-184) is a message the shadow takes, as long as no     *)
(* try_acquire and no connection has failed.                               *)
MessagesWellFormed ==
    ~contended /\ failures = 0 => \A i \in DOMAIN up : WellFormed(up[i])

Quiet == /\ main = "idle" /\ shadow_status = <<>> /\ stack = <<>>
         /\ up = <<>> /\ down = <<>> /\ hw_aws_publish

(* When nothing is under way the shadow holds the buttons of the device,   *)
(* whatever order echoes, commands, touches and nested callbacks came in,  *)
(* as long as each try_acquire has succeeded, and so no touch came while a *)
(* message was being published (that update is lost, awsiot.cpp:190).      *)
ButtonsAgree ==
    Quiet /\ ~contended /\ failures = 0 => \A b \in Buttons : hw[b] = reported[b]

Has(s, n, v) ==
    \E i \in 1 .. Len(s) - 1 : s[i].t = "key" /\ s[i].n = n /\ s[i + 1] = Value(v)

=============================================================================
