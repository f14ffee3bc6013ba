-------------------------------- MODULE Json --------------------------------
(***************************************************************************)
(* json_aws.cpp: json_writer and json_parse as the machines they are, one  *)
(* action for each turn of their loops.  A child is written and parsed by  *)
(* a recursive call, so each has a stack of the calls under way; a call of *)
(* json_parse has the part of the text that the braces delimit.            *)
(*                                                                         *)
(* A text is a sequence of characters.  A document is a function from keys *)
(* to values; a key, a string and a number are sequences of characters.    *)
(***************************************************************************)
EXTENDS Integers, Sequences, SequencesExt, FiniteSetsExt

CONSTANTS
    KeyOrder,    \* the keys in the order of a map
    Leaves,      \* strings and numbers of a document
    Documents,   \* the documents and their children
    Gaps,        \* what a sender puts after '{' and ','
    Plain        \* the characters of keys, strings and gaps

BRO == "{"   BRC == "}"   COL == ":"   COA == ","   QTM == "\""   SPC == " "
Digits == {"0", "7"}

(* *it - '0' < 10: also true of the characters below '0'.                  *)
BelowColon(c) == c \in Digits \cup {"-", COA, SPC}

Str(s)   == [type |-> "string", value |-> s]
Num(s)   == [type |-> "num", value |-> s]
Child(m) == [type |-> "child", value |-> m]
Empty    == [k \in {} |-> Str(<<>>)]     \* new map<string,JSON>()

(* to_string of an int.                                                    *)
IsNumber(s) ==
    /\ s \in Seq(Digits \cup {"-"}) /\ s # <<>>
    /\ \A i \in 2 .. Len(s) : s[i] \in Digits

IsLeaf(v) == \/ v = Str(v.value) /\ v.value \in Seq(Plain)
             \/ v = Num(v.value) /\ IsNumber(v.value)

(* No map of a document is empty: of an empty one json_writer writes only  *)
(* "}".                                                                    *)
IsDocument(m) ==
    /\ m = [k \in DOMAIN m |-> m[k]]
    /\ DOMAIN m # {} /\ DOMAIN m \subseteq ToSet(KeyOrder)
    /\ \A k \in DOMAIN m :
          \/ m[k] \in Leaves
          \/ m[k] = Child(m[k].value) /\ m[k].value \in Documents

(* json_parse takes a quote for the end of a string, and counts the braces *)
(* in strings too.                                                         *)
ASSUME TextAssumption ==
    /\ Plain \cap {QTM, BRO, BRC} = {}
    /\ \A k \in ToSet(KeyOrder) \cup Gaps : k \in Seq(Plain)
    /\ \A v \in Leaves : IsLeaf(v)
ASSUME DocumentsAssumption == \A m \in Documents : IsDocument(m)

VARIABLES
    doc, text,   \* a document, and what json_writer has made of it so far
    writes,      \* the json_writer calls under way, the innermost one last
    calls,       \* those of json_parse
    result       \* what the outermost has returned

vars == <<doc, text, writes, calls, result>>

Write(m)  == [m |-> m, left |-> DOMAIN m]
Before(k, l) == \E i, j \in DOMAIN KeyOrder : i < j /\ KeyOrder[i] = k /\ KeyOrder[j] = l

Init ==
    /\ doc \in Documents /\ text = <<>>
    /\ writes = <<Write(doc)>> /\ calls = <<>>
    /\ result = Empty
-----------------------------------------------------------------------------
Writing == Last(writes)

EntryHead(first, gap, k) ==
    <<IF first THEN BRO ELSE COA>> \o gap \o <<QTM>> \o k \o <<QTM, COL>>
LeafText(v) == IF v.type = "string" THEN <<QTM>> \o v.value \o <<QTM>> ELSE v.value

(* A turn of the loop of json_writer; its own gaps are empty.              *)
WriteEntry ==
    /\ writes # <<>>
    /\ \E k \in Writing.left, gap \in Gaps :
          /\ \A l \in Writing.left \ {k} : Before(k, l)
          /\ LET v     == Writing.m[k]
                 head  == EntryHead(Writing.left = DOMAIN Writing.m, gap, k)
                 frame == [Writing EXCEPT !.left = @ \ {k}]
             IN  IF v.type = "child"
                 THEN /\ text' = text \o head
                      /\ writes' = Append(Append(Front(writes), frame), Write(v.value))
                 ELSE /\ text' = text \o head \o LeafText(v)
                      /\ writes' = Append(Front(writes), frame)
    /\ UNCHANGED <<doc, calls, result>>

Call(start, end) ==
    [it |-> start, end |-> end, status |-> 0, first |-> start, key |-> <<>>, m |-> Empty]

(* The end of json_writer; the outermost call returns the text, which the  *)
(* other side hands to json_parse.                                         *)
WriteEnds ==
    /\ writes # <<>> /\ Writing.left = {}
    /\ text' = Append(text, BRC)
    /\ writes' = Front(writes)
    /\ calls' = IF Len(writes) = 1 THEN <<Call(1, Len(text) + 2)>> ELSE <<>>
    /\ UNCHANGED <<doc, result>>
-----------------------------------------------------------------------------
Now == Last(calls)
Read == text[Now.it]
InLoop(status) == calls # <<>> /\ Now.it < Now.end /\ Now.status = status
Scanned == SubSeq(text, Now.first, Now.it - 1)
With(k, v, m) == [j \in DOMAIN m \cup {k} |-> IF j = k THEN v ELSE m[j]]

(* The rest of the turn: `call` is what it has made of Now; ++it.          *)
Turn(call) ==
    /\ calls' = Append(Front(calls), [call EXCEPT !.it = @ + 1])
    /\ UNCHANGED <<doc, text, writes, result>>

(* The turns that wait for one character.                                  *)
AwaitsOpen   == InLoop(0) /\ Turn([Now EXCEPT !.status = IF Read = BRO THEN 1 ELSE 0])
AwaitsColon  == InLoop(3) /\ Turn([Now EXCEPT !.status = IF Read = COL THEN 4 ELSE 3])
AwaitsComma  == InLoop(7) /\ Turn([Now EXCEPT !.status = IF Read = COA THEN 1 ELSE 7])
AwaitsKey ==
    /\ InLoop(1)
    /\ Turn(IF Read = QTM THEN [Now EXCEPT !.status = 2, !.first = Now.it + 1] ELSE Now)

KeyEnds ==
    /\ InLoop(2)
    /\ Turn(IF Read = QTM THEN [Now EXCEPT !.status = 3, !.key = Scanned] ELSE Now)

(* Every character but these is passed over, the '}' of an empty child too.*)
ValueStarts ==
    /\ InLoop(4) /\ Read # BRO
    /\ Turn(CASE Read = QTM        -> [Now EXCEPT !.status = 5, !.first = Now.it + 1]
              [] BelowColon(Read)  -> [Now EXCEPT !.status = 6, !.first = Now.it]
              [] OTHER             -> Now)

StringEnds ==
    /\ InLoop(5)
    /\ Turn(IF Read = QTM
            THEN [Now EXCEPT !.status = 7, !.m = With(Now.key, Str(Scanned), @)]
            ELSE Now)

NumberTakesComma ==   \* mutant: no --it
    /\ InLoop(6)
    /\ Turn(IF Read \notin Digits
            THEN [Now EXCEPT !.status = 7, !.m = With(Now.key, Num(Scanned), @)]
            ELSE Now)

NumberGoesBack ==   \* mutant: back to the first digit, not to the last
    /\ InLoop(6)
    /\ Turn(IF Read \notin Digits
            THEN [Now EXCEPT !.it = Now.first - 1, !.status = 4,
                             !.m = With(Now.key, Num(Scanned), @)]
            ELSE Now)

(* stoi of what was scanned; --it lets the next turn see the character.    *)
NumberEnds ==
    /\ InLoop(6)
    /\ Turn(IF Read \notin Digits
            THEN [Now EXCEPT !.it = @ - 1, !.status = 7,
                             !.m = With(Now.key, Num(Scanned), @)]
            ELSE Now)

ClosesLate(first, end) ==   \* mutant: one past the position behind the brace
    LET open(i, c) == Cardinality({j \in first .. i : text[j] = c})
        even == {i \in first .. end - 1 : open(i, BRO) = open(i, BRC)}
    IN  IF even = {} THEN end ELSE Min(even) + 2

(* The position behind the brace that closes the one at `first`, or end.   *)
Closes(first, end) ==
    LET open(i, c) == Cardinality({j \in first .. i : text[j] = c})
        even == {i \in first .. end - 1 : open(i, BRO) = open(i, BRC)}
    IN  IF even = {} THEN end ELSE Min(even) + 1

ChildStarts ==
    /\ InLoop(4) /\ Read = BRO
    /\ LET behind == Closes(Now.it, Now.end)
       IN  calls' = Append(calls, Call(Now.it, behind))
    /\ UNCHANGED <<doc, text, writes, result>>

(* The caller goes on behind the child, in the same turn, which looks for  *)
(* a comma there: at the end of its part too, where it would not stop.     *)
ChildReturns ==
    /\ Len(calls) > 1 /\ Now.it = Now.end
    /\ LET caller == Last(Front(calls))
           comma  == Now.end <= Len(text) /\ text[Now.end] = COA
       IN  calls' = Append(Front(Front(calls)),
                      [caller EXCEPT !.it = Now.end + 1,
                                     !.status = IF comma THEN 1 ELSE 7,
                                     !.m = With(caller.key, Child(Now.m), @)])
    /\ UNCHANGED <<doc, text, writes, result>>

Returns ==
    /\ Len(calls) = 1 /\ Now.it = Now.end
    /\ result' = Now.m /\ calls' = <<>>
    /\ UNCHANGED <<doc, text, writes>>

Next ==
    \/ WriteEntry \/ WriteEnds
    \/ AwaitsOpen \/ AwaitsKey \/ KeyEnds \/ AwaitsColon
    \/ ValueStarts \/ ChildStarts \/ StringEnds \/ NumberEnds \/ AwaitsComma
    \/ ChildReturns \/ Returns

Spec == Init /\ [][Next]_vars /\ WF_vars(Next)
-----------------------------------------------------------------------------
StaysInPart ==
    \A i \in DOMAIN calls :
        /\ calls[i].first \in 1 .. calls[i].it + 1
        /\ calls[i].it <= calls[i].end
        /\ i > 1 => calls[i].end <= calls[i - 1].end

Done == writes = <<>> /\ calls = <<>>

(* What is parsed is what was written, whatever the nesting, the order of  *)
(* the kinds of values and the gaps; and on the way no call reads outside  *)
(* its part of the text, so that `++it != end` always meets the end.       *)
ParsesAsWritten == StaysInPart /\ (Done => result = doc)

(* json_writer and json_parse return.                                      *)
ParseEnds == <>Done
=============================================================================
