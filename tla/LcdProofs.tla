----------------------------- MODULE LcdProofs ------------------------------
(***************************************************************************)
(* For any number of buffers and any size of the queue: as long as nothing *)
(* was claimed under main, a buffer that is taken has one owner and still  *)
(* holds the text of the call that took it (TextsKept); and at rest the    *)
(* display shows what it was asked for (ShownAsWanted).                    *)
(***************************************************************************)
EXTENDS Lcd, TLAPS

Shown == Texts \cup {NoText}

TextEvents ==
    [kind : {"text", "drawn"}, buffer : Indexes, passed : Shown, line : Lines]

Events ==
    [kind : {"startup"}] \cup [kind : {"button"}, button : Buttons, on : BOOLEAN]
    \cup [kind : {"slice"}, pos : Positions] \cup TextEvents

Calls == [kind : {"found", "copied"}, buffer : Indexes, text : Texts, line : Lines]

Types ==
    /\ textbuffer \in [Indexes -> Shown \cup {Free}]
    /\ queue \in Seq(Events) /\ later \in Seq(Events)
    /\ handling \in {Nothing} \cup Events
    /\ main \in {Nothing} \cup Calls
    /\ raced \in BOOLEAN

(* Of the events that wait none has been drawn.                            *)
Waiting(s) == \A k \in DOMAIN s : s[k].kind # "drawn"

At(s, i, k) == k \in DOMAIN s /\ Holds(s[k], i)
ByMain(i) == main.kind = "copied" /\ main.buffer = i

Owned(i) ==
    \/ \E k \in Nat : At(queue, i, k)
    \/ \E k \in Nat : At(later, i, k)
    \/ Holds(handling, i) \/ ByMain(i) \/ i \in leaked

OwnedOnce(i) ==
    /\ \A k, l \in Nat : At(queue, i, k) /\ At(queue, i, l) => k = l
    /\ \A k, l \in Nat : At(later, i, k) /\ At(later, i, l) => k = l
    /\ \A k, l \in Nat : ~(At(queue, i, k) /\ At(later, i, l))
    /\ \A k \in Nat :
        At(queue, i, k) \/ At(later, i, k) =>
            ~Holds(handling, i) /\ ~ByMain(i) /\ i \notin leaked
    /\ Holds(handling, i) => ~ByMain(i) /\ i \notin leaked
    /\ ByMain(i) => i \notin leaked

(* A text that waits to be drawn is still in its buffer, and the buffer    *)
(* that main has found is still free.                                      *)
Intact(i) ==
    /\ \A k \in Nat : At(queue, i, k) => textbuffer[i] = queue[k].passed
    /\ \A k \in Nat : At(later, i, k) => textbuffer[i] = later[k].passed
    /\ Holds(handling, i) /\ handling.kind = "text" => textbuffer[i] = handling.passed
    /\ ByMain(i) => textbuffer[i] = main.text
    /\ main.kind = "found" /\ main.buffer = i => textbuffer[i] = Free

Kept(i) ==
    /\ Intact(i) /\ OwnedOnce(i)
    /\ textbuffer[i] = Free <=> ~Owned(i)

LcdInv ==
    /\ Types /\ Waiting(queue) /\ Waiting(later)
    /\ ~raced => \A i \in Indexes : Kept(i)
-----------------------------------------------------------------------------
LEMMA Characters == Free \notin Shown
BY TextsAssumption DEF Shown, Free, NoText

(* t is s with an event more, or with its first event gone, as far as      *)
(* buffer i is concerned.                                                  *)
Longer(s, t, ev, i) ==
    \E n \in Nat :
        /\ ~At(s, i, n) /\ t[n] = ev
        /\ \A k \in Nat :
            /\ At(t, i, k) <=> At(s, i, k) \/ (k = n /\ Holds(ev, i))
            /\ At(s, i, k) => t[k] = s[k]

Shorter(s, t, i) ==
    /\ At(s, i, 1) <=> Holds(s[1], i)
    /\ \A k \in Nat :
        /\ k + 1 \in Nat
        /\ At(t, i, k) <=> k > 0 /\ At(s, i, k + 1)
        /\ At(t, i, k) => t[k] = s[k + 1]
    /\ \A k \in Nat : At(s, i, k) => k = 1 \/ (\E l \in Nat : k = l + 1 /\ At(t, i, l))

(* A new event is the last one.                                            *)
LEMMA AtAppend ==
  ASSUME NEW s \in Seq(Events), NEW ev \in Events, NEW i
  PROVE  /\ Append(s, ev) \in Seq(Events)
         /\ Waiting(s) /\ ev.kind # "drawn" => Waiting(Append(s, ev))
         /\ Longer(s, Append(s, ev), ev, i)
<1>1. Append(s, ev) \in Seq(Events) /\ (Waiting(s) /\ ev.kind # "drawn" => Waiting(Append(s, ev)))
      BY DEF Waiting
<1>2. Len(s) + 1 \in Nat /\ ~At(s, i, Len(s) + 1) /\ Append(s, ev)[Len(s) + 1] = ev
      BY DEF At
<1>3. \A k \in Nat :
        /\ At(Append(s, ev), i, k) <=> At(s, i, k) \/ (k = Len(s) + 1 /\ Holds(ev, i))
        /\ At(s, i, k) => Append(s, ev)[k] = s[k]
      BY DEF At
<1>4. QED
      BY <1>1, <1>2, <1>3 DEF Longer

(* The first one leaves and the others move up.                            *)
LEMMA AtTail ==
  ASSUME NEW s \in Seq(Events), s # <<>>, NEW i
  PROVE  /\ Tail(s) \in Seq(Events) /\ Head(s) \in Events
         /\ Waiting(s) => Waiting(Tail(s)) /\ Head(s).kind # "drawn"
         /\ Head(s) = s[1] /\ Shorter(s, Tail(s), i)
<1> USE DEF At, Waiting
<1>1. Len(s) \in Nat \ {0} /\ Len(Tail(s)) = Len(s) - 1 /\ DOMAIN Tail(s) = 1 .. Len(s) - 1
      OBVIOUS
<1>2. \A k \in 1 .. Len(s) - 1 : Tail(s)[k] = s[k + 1]
      OBVIOUS
<1>3. Tail(s) \in Seq(Events) /\ Head(s) \in Events /\ Head(s) = s[1] /\ DOMAIN s = 1 .. Len(s)
      OBVIOUS
<1>4. \A k \in Nat : At(s, i, k) => k = 1 \/ (\E l \in Nat : k = l + 1 /\ At(Tail(s), i, l))
  <2> SUFFICES ASSUME NEW k \in Nat, At(s, i, k), k # 1
               PROVE  k - 1 \in Nat /\ k = (k - 1) + 1 /\ At(Tail(s), i, k - 1)
      OBVIOUS
  <2>1. k - 1 \in 1 .. Len(s) - 1
        BY <1>1, <1>3
  <2>2. QED
        BY <1>1, <1>2, <2>1
<1>5. \A k \in Nat : k + 1 \in Nat /\ (At(Tail(s), i, k) <=> k > 0 /\ At(s, i, k + 1))
      BY <1>1, <1>2, <1>3
<1>6. \A k \in Nat : At(Tail(s), i, k) => Tail(s)[k] = s[k + 1]
      BY <1>1, <1>2
<1>7. At(s, i, 1) <=> Holds(s[1], i)
      BY <1>1, <1>3
<1>8. Waiting(s) => Waiting(Tail(s)) /\ Head(s).kind # "drawn"
      BY <1>1, <1>2, <1>3
<1>9. QED
      BY <1>3, <1>4, <1>5, <1>6, <1>7, <1>8 DEF Shorter
-----------------------------------------------------------------------------
(* A buffer that a step leaves alone is kept.                              *)
LEMMA Untouched ==
  ASSUME NEW i \in Indexes, Kept(i),
         textbuffer'[i] = textbuffer[i], i \in leaked' <=> i \in leaked,
         \A k \in Nat : (At(queue', i, k) <=> At(queue, i, k))
                        /\ (At(queue, i, k) => queue'[k] = queue[k]),
         \A k \in Nat : (At(later', i, k) <=> At(later, i, k))
                        /\ (At(later, i, k) => later'[k] = later[k]),
         Holds(handling', i) <=> Holds(handling, i),
         Holds(handling, i) /\ handling'.kind = "text" => handling' = handling,
         ByMain(i)' <=> ByMain(i), ByMain(i) => main'.text = main.text,
         main'.kind = "found" /\ main'.buffer = i => textbuffer[i] = Free
  PROVE  Kept(i)'
<1>1. Intact(i)'
  <2>1. \A k \in Nat : At(queue', i, k) => textbuffer'[i] = queue'[k].passed
        BY DEF Kept, Intact
  <2>2. \A k \in Nat : At(later', i, k) => textbuffer'[i] = later'[k].passed
        BY DEF Kept, Intact
  <2>3. QED
        BY <2>1, <2>2 DEF Kept, Intact
<1>2. OwnedOnce(i)'
      BY DEF Kept, OwnedOnce
<1>3. Owned(i)' <=> Owned(i)
      BY DEF Owned
<1>4. QED
      BY <1>1, <1>2, <1>3 DEF Kept

(* One that gets its only owner is kept.                                   *)
LEMMA Given ==
  ASSUME NEW i \in Indexes, NEW text \in Shown, textbuffer'[i] = text,
         ~ByMain(i)', ~Holds(handling', i), main'.kind # "found" \/ main'.buffer # i,
         \/ /\ \E n \in Nat : queue'[n].passed = text /\ (\A k \in Nat : At(queue', i, k) <=> k = n)
            /\ (\A k \in Nat : ~At(later', i, k)) /\ i \notin leaked'
         \/ /\ \E n \in Nat : later'[n].passed = text /\ (\A k \in Nat : At(later', i, k) <=> k = n)
            /\ (\A k \in Nat : ~At(queue', i, k)) /\ i \notin leaked'
         \/ (\A k \in Nat : ~At(queue', i, k) /\ ~At(later', i, k)) /\ i \in leaked'
  PROVE  Kept(i)'
<1>1. textbuffer'[i] # Free
      BY Characters
<1>2. Owned(i)'
      BY DEF Owned
<1>3. OwnedOnce(i)'
      BY DEF OwnedOnce
<1>4. Intact(i)'
      BY DEF Intact, ByMain
<1>5. QED
      BY <1>1, <1>2, <1>3, <1>4 DEF Kept

LEMMA NotHeld == \A i : ~Holds(Nothing, i)
BY DEF Holds, Nothing

(* What lcd_queue.call does, with room or without.                         *)
LEMMA Posted ==
  ASSUME Types, NEW ev \in Events, ev.kind = "text", PostText(ev), NEW i
  PROVE  /\ queue' \in Seq(Events) /\ later' = later
         /\ (Waiting(queue) => Waiting(queue'))
         /\ i # ev.buffer =>
              /\ i \in leaked' <=> i \in leaked
              /\ \A k \in Nat : (At(queue', i, k) <=> At(queue, i, k))
                                /\ (At(queue, i, k) => queue'[k] = queue[k])
         /\ i = ev.buffer =>
              \/ /\ i \in leaked' <=> i \in leaked
                 /\ \E n \in Nat :
                      /\ queue'[n] = ev
                      /\ \A k \in Nat : At(queue', i, k) <=> At(queue, i, k) \/ k = n
              \/ i \in leaked' /\ queue' = queue
<1>1. queue \in Seq(Events)
      BY DEF Types
<1>2. CASE Room = 0
      BY <1>1, <1>2 DEF PostText
<1>3. CASE Room # 0
  <2>1. queue' = Append(queue, ev) /\ later' = later /\ leaked' = leaked
        BY <1>3 DEF PostText
  <2>2. Holds(ev, i) <=> i = ev.buffer
        BY DEF Holds
  <2>3. /\ queue' \in Seq(Events) /\ (Waiting(queue) => Waiting(queue'))
        /\ Longer(queue, queue', ev, i)
        BY <1>1, <2>1, AtAppend
  <2>4. QED
        BY <2>1, <2>2, <2>3 DEF Longer
<1>4. QED
      BY <1>2, <1>3
-----------------------------------------------------------------------------
LEMMA Take ==
  ASSUME LcdInv, TakeDue
  PROVE  LcdInv'
<1>1. /\ queue \in Seq(Events) /\ queue # <<>>
      /\ handling' = Head(queue) /\ queue' = Tail(queue)
      /\ UNCHANGED <<textbuffer, later, main, leaked, raced>>
      /\ \A i : ~Holds(handling, i)
      BY NotHeld DEF LcdInv, Types, TakeDue
<1>2. Types'
      BY <1>1, AtTail DEF LcdInv, Types
<1>3. Waiting(queue)' /\ Waiting(later)'
      BY <1>1, AtTail DEF LcdInv, Waiting
<1>4. ASSUME ~raced, NEW i \in Indexes PROVE Kept(i)'
  <2>1. Kept(i)
        BY <1>4 DEF LcdInv
  <2>2. /\ handling' = queue[1] /\ (handling'.kind # "drawn")
        /\ Shorter(queue, queue', i)
        BY <1>1, AtTail DEF LcdInv
  <2>3. /\ At(queue, i, 1) <=> Holds(handling', i)
        /\ \A k \in Nat :
              /\ k + 1 \in Nat
              /\ At(queue', i, k) <=> k > 0 /\ At(queue, i, k + 1)
              /\ At(queue', i, k) => queue'[k] = queue[k + 1]
        /\ \A k \in Nat : At(queue, i, k) => k = 1 \/ (\E l \in Nat : k = l + 1 /\ At(queue', i, l))
        BY <2>2 DEF Shorter
  <2>4. /\ later' = later /\ textbuffer' = textbuffer /\ leaked' = leaked /\ main' = main
        /\ ByMain(i)' <=> ByMain(i)
        BY <1>1 DEF ByMain
  <2>5. Intact(i)'
    <3>1. ASSUME NEW k \in Nat, At(queue', i, k) PROVE textbuffer'[i] = queue'[k].passed
      <4>1. k + 1 \in Nat /\ At(queue, i, k + 1) /\ queue'[k] = queue[k + 1]
            BY <2>3, <3>1
      <4>2. \A l \in Nat : At(queue, i, l) => textbuffer[i] = queue[l].passed
            BY <2>1 DEF Kept, Intact
      <4>3. textbuffer[i] = queue[k + 1].passed
            BY <4>1, <4>2
      <4>4. QED
            BY <4>1, <4>3, <2>4
    <3>2. Holds(handling', i) => textbuffer'[i] = handling'.passed
          BY <2>1, <2>2, <2>3, <2>4 DEF Kept, Intact
    <3>3. QED
          BY <2>1, <2>4, <3>1, <3>2 DEF Kept, Intact
  <2>6. OwnedOnce(i)'
        BY <1>1, <2>1, <2>3, <2>4 DEF Kept, OwnedOnce
  <2>7. Owned(i)' <=> Owned(i)
    <3>1. (\E k \in Nat : At(queue, i, k)) <=> Holds(handling', i) \/ (\E k \in Nat : At(queue', i, k))
          BY <2>3
    <3>2. QED
          BY <1>1, <2>4, <3>1 DEF Owned
  <2>8. QED
        BY <2>1, <2>4, <2>5, <2>6, <2>7 DEF Kept
<1>5. QED
      BY <1>1, <1>2, <1>3, <1>4 DEF LcdInv

LEMMA TakeLater ==
  ASSUME LcdInv, TakeDelayed
  PROVE  LcdInv'
<1>1. /\ later \in Seq(Events) /\ later # <<>>
      /\ handling' = Head(later) /\ later' = Tail(later)
      /\ UNCHANGED <<textbuffer, queue, main, leaked, raced>>
      /\ \A i : ~Holds(handling, i)
      BY NotHeld DEF LcdInv, Types, TakeDelayed
<1>2. Types'
      BY <1>1, AtTail DEF LcdInv, Types
<1>3. Waiting(later)' /\ Waiting(queue)'
      BY <1>1, AtTail DEF LcdInv, Waiting
<1>4. ASSUME ~raced, NEW i \in Indexes PROVE Kept(i)'
  <2>1. Kept(i)
        BY <1>4 DEF LcdInv
  <2>2. /\ handling' = later[1] /\ (handling'.kind # "drawn")
        /\ Shorter(later, later', i)
        BY <1>1, AtTail DEF LcdInv
  <2>3. /\ At(later, i, 1) <=> Holds(handling', i)
        /\ \A k \in Nat :
              /\ k + 1 \in Nat
              /\ At(later', i, k) <=> k > 0 /\ At(later, i, k + 1)
              /\ At(later', i, k) => later'[k] = later[k + 1]
        /\ \A k \in Nat : At(later, i, k) => k = 1 \/ (\E l \in Nat : k = l + 1 /\ At(later', i, l))
        BY <2>2 DEF Shorter
  <2>4. /\ queue' = queue /\ textbuffer' = textbuffer /\ leaked' = leaked /\ main' = main
        /\ ByMain(i)' <=> ByMain(i)
        BY <1>1 DEF ByMain
  <2>5. Intact(i)'
    <3>1. ASSUME NEW k \in Nat, At(later', i, k) PROVE textbuffer'[i] = later'[k].passed
      <4>1. k + 1 \in Nat /\ At(later, i, k + 1) /\ later'[k] = later[k + 1]
            BY <2>3, <3>1
      <4>2. \A l \in Nat : At(later, i, l) => textbuffer[i] = later[l].passed
            BY <2>1 DEF Kept, Intact
      <4>3. textbuffer[i] = later[k + 1].passed
            BY <4>1, <4>2
      <4>4. QED
            BY <4>1, <4>3, <2>4
    <3>2. Holds(handling', i) => textbuffer'[i] = handling'.passed
          BY <2>1, <2>2, <2>3, <2>4 DEF Kept, Intact
    <3>3. QED
          BY <2>1, <2>4, <3>1, <3>2 DEF Kept, Intact
  <2>6. OwnedOnce(i)'
        BY <1>1, <2>1, <2>3, <2>4 DEF Kept, OwnedOnce
  <2>7. Owned(i)' <=> Owned(i)
    <3>1. (\E k \in Nat : At(later, i, k)) <=> Holds(handling', i) \/ (\E k \in Nat : At(later', i, k))
          BY <2>3
    <3>2. QED
          BY <1>1, <2>4, <3>1 DEF Owned
  <2>8. QED
        BY <2>1, <2>4, <2>5, <2>6, <2>7 DEF Kept
<1>5. QED
      BY <1>1, <1>2, <1>3, <1>4 DEF LcdInv

(* lcd_draw_text in main.                                                  *)
LEMMA Find ==
  ASSUME LcdInv, MainFinds
  PROVE  LcdInv'
<1>1. PICK i \in FreeBuffers, text \in Texts, line \in Lines :
        main' = [kind |-> "found", buffer |-> i, text |-> text, line |-> line]
      BY DEF MainFinds
<1>2. /\ UNCHANGED <<textbuffer, queue, later, handling, leaked, raced>>
      /\ main = Nothing /\ i \in Indexes /\ textbuffer[i] = Free
      BY DEF MainFinds, FreeBuffers
<1>3. Types'
      BY <1>1, <1>2 DEF LcdInv, Types, Calls
<1>4. \A k \in Indexes : ~ByMain(k) /\ ~ByMain(k)'
      BY <1>1, <1>2 DEF ByMain, Nothing
<1>5. ASSUME ~raced, NEW k \in Indexes PROVE Kept(k)'
      BY <1>1, <1>2, <1>4, <1>5, Untouched DEF LcdInv
<1>6. QED
      BY <1>2, <1>3, <1>5 DEF LcdInv

LEMMA Copy ==
  ASSUME LcdInv, MainCopies
  PROVE  LcdInv'
<1>1. /\ main.kind = "found" /\ main' = [main EXCEPT !.kind = "copied"]
      /\ textbuffer' = [textbuffer EXCEPT ![main.buffer] = main.text]
      /\ UNCHANGED <<queue, later, handling, leaked, raced>>
      BY DEF MainCopies
<1>2. main \in Calls
      BY <1>1 DEF LcdInv, Types, Nothing
<1>3. /\ main.buffer \in Indexes /\ main.text \in Shown /\ main' \in Calls
      /\ main'.kind = "copied" /\ main'.buffer = main.buffer /\ main'.text = main.text
      BY <1>1, <1>2 DEF Calls, Shown
<1>4. Types'
      BY <1>1, <1>3 DEF LcdInv, Types
<1>5. ASSUME ~raced, NEW i \in Indexes PROVE Kept(i)'
  <2>1. Kept(i)
        BY <1>5 DEF LcdInv
  <2>2. CASE i # main.buffer
    <3>1. ~ByMain(i) /\ ~ByMain(i)' /\ textbuffer'[i] = textbuffer[i]
          BY <1>1, <1>3, <2>2 DEF ByMain, LcdInv, Types
    <3>2. QED
          BY <1>1, <1>3, <2>1, <3>1, Untouched
  <2>3. CASE i = main.buffer
    <3>1. textbuffer[i] = Free /\ ~Owned(i)
          BY <1>1, <1>3, <2>1, <2>3 DEF Kept, Intact
    <3>2. ByMain(i)' /\ textbuffer'[i] = main.text
          BY <1>1, <1>3, <2>3 DEF ByMain, LcdInv, Types
    <3>3. OwnedOnce(i)'
          BY <1>1, <1>3, <3>1 DEF Owned, OwnedOnce
    <3>4. Intact(i)'
          BY <1>1, <1>3, <3>1, <3>2 DEF Owned, Intact
    <3>5. Owned(i)' /\ textbuffer'[i] # Free
          BY <1>3, <3>2, Characters DEF Owned
    <3>6. QED
          BY <3>3, <3>4, <3>5 DEF Kept
  <2>4. QED
        BY <2>2, <2>3
<1>6. QED
      BY <1>1, <1>4, <1>5 DEF LcdInv

LEMMA Post ==
  ASSUME LcdInv, MainPosts
  PROVE  LcdInv'
<1> DEFINE ev == TextEvent(main.buffer, main.text, main.line)
<1>1. /\ main.kind = "copied" /\ main \in Calls /\ main' = Nothing /\ PostText(ev)
      /\ UNCHANGED <<textbuffer, handling, raced>>
      BY DEF MainPosts, LcdInv, Types, Nothing
<1>2. /\ main.buffer \in Indexes /\ main.text \in Shown
      /\ ev \in Events /\ ev.kind = "text" /\ ev.buffer = main.buffer /\ ev.passed = main.text
      BY <1>1 DEF Calls, Shown, Events, TextEvents, TextEvent
<1> HIDE DEF ev
<1>3. Types' /\ Waiting(queue)' /\ Waiting(later)'
      BY <1>1, <1>2, Posted DEF LcdInv, Types
<1>4. ASSUME ~raced, NEW i \in Indexes PROVE Kept(i)'
  <2>1. Kept(i) /\ Types
        BY <1>4 DEF LcdInv
  <2>2. main'.kind # "found" /\ ~ByMain(i)'
        BY <1>1 DEF ByMain, Nothing
  <2>3. CASE i # main.buffer
    <3>1. ~ByMain(i)
          BY <2>3 DEF ByMain
    <3>2. QED
          BY <1>1, <1>2, <2>1, <2>2, <2>3, <3>1, Posted, Untouched
  <2>4. CASE i = main.buffer
    <3>1. ByMain(i) /\ textbuffer[i] = main.text
          BY <1>1, <2>1, <2>4 DEF ByMain, Kept, Intact
    <3>2. /\ \A k \in Nat : ~At(queue, i, k) /\ ~At(later, i, k)
          /\ ~Holds(handling, i) /\ i \notin leaked
          BY <2>1, <3>1 DEF Kept, OwnedOnce
    <3>3. QED
          BY <1>1, <1>2, <2>1, <2>2, <2>4, <3>1, <3>2, Posted, Given
  <2>5. QED
        BY <2>3, <2>4
<1>5. QED
      BY <1>1, <1>3, <1>4 DEF LcdInv

(* lcd_msg in the AWS thread.                                              *)
LEMMA Draws ==
  ASSUME LcdInv, AwsDraws
  PROVE  LcdInv'
<1>1. PICK i \in FreeBuffers, text \in Texts, line \in Lines :
        /\ textbuffer' = [textbuffer EXCEPT ![i] = text]
        /\ PostText(TextEvent(i, text, line)) /\ Claims({i})
      BY DEF AwsDraws
<1> DEFINE ev == TextEvent(i, text, line)
<1>2. /\ i \in Indexes /\ text \in Shown
      /\ ev \in Events /\ ev.kind = "text" /\ ev.buffer = i /\ ev.passed = text
      BY DEF FreeBuffers, Shown, Events, TextEvents, TextEvent
<1>3. PostText(ev) /\ handling' = handling /\ main' = main
      BY <1>1 DEF AwsDraws
<1> HIDE DEF ev
<1>4. Types' /\ Waiting(queue)' /\ Waiting(later)'
      BY <1>1, <1>2, <1>3, Posted DEF LcdInv, Types, Claims
<1>5. ASSUME ~raced', NEW k \in Indexes PROVE Kept(k)'
  <2>1. ~raced /\ ~(main.kind = "found" /\ main.buffer = i)
        BY <1>1, <1>5 DEF Claims, LcdInv, Types
  <2>2. Kept(k) /\ Kept(i) /\ Types
        BY <1>2, <2>1 DEF LcdInv
  <2>3. CASE k # i
    <3>1. /\ ByMain(k)' <=> ByMain(k)
          /\ textbuffer'[k] = textbuffer[k]
          /\ main'.kind = "found" /\ main'.buffer = k => textbuffer[k] = Free
          BY <1>1, <1>2, <1>3, <2>2, <2>3 DEF ByMain, Types, Kept, Intact
    <3>2. QED
          BY <1>2, <1>3, <2>2, <2>3, <3>1, Posted, Untouched
  <2>4. CASE k = i
    <3>1. ~Owned(k)
          BY <2>2, <2>4 DEF FreeBuffers, Kept
    <3>2. /\ \A l \in Nat : ~At(queue, k, l) /\ ~At(later, k, l)
          /\ ~Holds(handling', k) /\ k \notin leaked /\ ~ByMain(k)'
          BY <1>3, <3>1 DEF Owned, ByMain
    <3>3. textbuffer'[k] = text /\ (main'.kind # "found" \/ main'.buffer # k)
          BY <1>1, <1>2, <1>3, <2>1, <2>2, <2>4 DEF Types
    <3>4. QED
          BY <1>2, <1>3, <2>2, <2>4, <3>2, <3>3, Posted, Given
  <2>5. QED
        BY <2>3, <2>4
<1>6. QED
      BY <1>4, <1>5 DEF LcdInv

(* lcd_msg_delay_close in the AWS thread.                                  *)
LEMMA Closes ==
  ASSUME LcdInv, AwsCloses
  PROVE  LcdInv'
<1>1. PICK i \in FreeBuffers, j \in FreeBuffers, text \in Texts, line \in Lines :
        /\ First(i, FreeBuffers) /\ First(j, FreeBuffers \ {i})
        /\ textbuffer' = [textbuffer EXCEPT ![i] = text, ![j] = NoText]
        /\ queue' = IF Room = 0 THEN queue ELSE Append(queue, TextEvent(i, text, line))
        /\ later' = IF Room < 2 THEN later ELSE Append(later, TextEvent(j, NoText, line))
        /\ leaked' = leaked \cup (IF Room = 0 THEN {i} ELSE {})
                             \cup (IF Room < 2 THEN {j} ELSE {})
        /\ Claims({i, j})
      BY DEF AwsCloses
<1> DEFINE ev == TextEvent(i, text, line)
           close == TextEvent(j, NoText, line)
<1>2. /\ i \in Indexes /\ j \in Indexes /\ i # j /\ text \in Shown /\ NoText \in Shown
      BY <1>1 DEF First, FreeBuffers, Shown
<1>3. /\ ev \in Events /\ ev.kind = "text" /\ ev.buffer = i /\ ev.passed = text
      /\ close \in Events /\ close.kind = "text" /\ close.buffer = j /\ close.passed = NoText
      BY <1>2 DEF Events, TextEvents, TextEvent
<1>4. /\ queue' = IF Room = 0 THEN queue ELSE Append(queue, ev)
      /\ later' = IF Room < 2 THEN later ELSE Append(later, close)
      /\ handling' = handling /\ main' = main
      BY <1>1 DEF AwsCloses
<1> HIDE DEF ev, close
<1>5. queue \in Seq(Events) /\ later \in Seq(Events) /\ Waiting(queue) /\ Waiting(later)
      BY DEF LcdInv, Types
<1>6. /\ queue' \in Seq(Events) /\ later' \in Seq(Events)
      /\ Waiting(queue') /\ Waiting(later')
      BY <1>3, <1>4, <1>5, AtAppend
<1>7. Types'
      BY <1>1, <1>2, <1>4, <1>6 DEF LcdInv, Types, Claims
<1>8. \A k : /\ Room # 0 => Longer(queue, queue', ev, k)
             /\ ~(Room < 2) => Longer(later, later', close, k)
      BY <1>3, <1>4, <1>5, AtAppend
<1>9. ASSUME ~raced', NEW k \in Indexes PROVE Kept(k)'
  <2>1. ~raced /\ ~(main.kind = "found" /\ main.buffer \in {i, j})
        BY <1>1, <1>9 DEF Claims, LcdInv, Types
  <2>2. Kept(k) /\ Types
        BY <2>1 DEF LcdInv
  <2>3. /\ Holds(ev, k) <=> k = i
        /\ Holds(close, k) <=> k = j
        BY <1>3 DEF Holds
  <2>4. CASE k \notin {i, j}
    <3>1. /\ ByMain(k)' <=> ByMain(k)
          /\ textbuffer'[k] = textbuffer[k] /\ (k \in leaked' <=> k \in leaked)
          /\ main'.kind = "found" /\ main'.buffer = k => textbuffer[k] = Free
          BY <1>1, <1>2, <1>4, <2>2, <2>4 DEF ByMain, Types, Kept, Intact
    <3>2. \A l \in Nat : (At(queue', k, l) <=> At(queue, k, l))
                        /\ (At(queue, k, l) => queue'[l] = queue[l])
          BY <1>4, <1>8, <2>3, <2>4 DEF Longer
    <3>3. \A l \in Nat : (At(later', k, l) <=> At(later, k, l))
                        /\ (At(later, k, l) => later'[l] = later[l])
          BY <1>4, <1>8, <2>3, <2>4 DEF Longer
    <3>4. QED
          BY <1>4, <2>2, <3>1, <3>2, <3>3, Untouched
  <2>5. CASE k \in {i, j}
    <3>1. ~Owned(k)
          BY <2>2, <2>5 DEF FreeBuffers, Kept
    <3>2. /\ \A l \in Nat : ~At(queue, k, l) /\ ~At(later, k, l)
          /\ ~Holds(handling', k) /\ k \notin leaked /\ ~ByMain(k)'
          /\ main'.kind # "found" \/ main'.buffer # k
          BY <1>4, <2>1, <2>5, <3>1 DEF Owned, ByMain
    <3>3. CASE k = i
      <4>1. textbuffer'[k] = text /\ (k \in leaked' <=> Room = 0)
            BY <1>1, <1>2, <2>2, <3>2, <3>3 DEF Types
      <4>2. \A l \in Nat : ~At(later', k, l)
            BY <1>2, <1>4, <1>8, <2>3, <3>2, <3>3 DEF Longer
      <4>3. Room # 0 => \E n \in Nat : queue'[n].passed = text /\ (\A l \in Nat : At(queue', k, l) <=> l = n)
            BY <1>3, <1>8, <2>3, <3>2, <3>3 DEF Longer
      <4>4. QED
            BY <1>2, <1>4, <3>2, <4>1, <4>2, <4>3, Given
    <3>4. CASE k = j
      <4>1. textbuffer'[k] = NoText /\ (k \in leaked' <=> Room < 2)
            BY <1>1, <1>2, <2>2, <3>2, <3>4 DEF Types
      <4>2. \A l \in Nat : ~At(queue', k, l)
            BY <1>2, <1>4, <1>8, <2>3, <3>2, <3>4 DEF Longer
      <4>3. ~(Room < 2) => \E n \in Nat : later'[n].passed = NoText /\ (\A l \in Nat : At(later', k, l) <=> l = n)
            BY <1>3, <1>8, <2>3, <3>2, <3>4 DEF Longer
      <4>4. QED
            BY <1>2, <1>4, <3>2, <4>1, <4>2, <4>3, Given
    <3>5. QED
          BY <2>5, <3>3, <3>4
  <2>6. QED
        BY <2>4, <2>5
<1>10. QED
      BY <1>6, <1>7, <1>9 DEF LcdInv

(* The buttons and the slider have no buffer.                              *)
LEMMA Graphics ==
  ASSUME LcdInv, NEW ev \in Events, ev.kind \notin {"text", "drawn"}, NEW asked, Draw(ev, asked)
  PROVE  LcdInv'
<1>1. /\ UNCHANGED <<textbuffer, later, handling, main, leaked, raced>>
      /\ queue' = queue \/ queue' = Append(queue, ev)
      BY DEF Draw
<1>2. queue \in Seq(Events) /\ Waiting(queue)
      BY DEF LcdInv, Types
<1>3. queue' \in Seq(Events) /\ Waiting(queue')
      BY <1>1, <1>2, AtAppend
<1>4. Types' /\ Waiting(later)'
      BY <1>1, <1>3 DEF LcdInv, Types
<1>5. ASSUME ~raced, NEW i \in Indexes PROVE Kept(i)'
  <2>1. Kept(i)
        BY <1>5 DEF LcdInv
  <2>2. \A k \in Nat : (At(queue', i, k) <=> At(queue, i, k)) /\ (At(queue, i, k) => queue'[k] = queue[k])
    <3>1. CASE queue' = queue
          BY <3>1
    <3>2. CASE queue' = Append(queue, ev)
      <4>1. Longer(queue, queue', ev, i) /\ ~Holds(ev, i)
            BY <1>2, <3>2, AtAppend DEF Holds
      <4>2. QED
            BY <4>1 DEF Longer
    <3>3. QED
          BY <1>1, <3>1, <3>2
  <2>3. (ByMain(i)' <=> ByMain(i)) /\ (main'.kind = "found" /\ main'.buffer = i => textbuffer[i] = Free)
        BY <1>1, <2>1 DEF ByMain, Kept, Intact
  <2>4. QED
        BY <1>1, <2>1, <2>2, <2>3, Untouched
<1>6. QED
      BY <1>1, <1>3, <1>4, <1>5 DEF LcdInv

LEMMA Shows ==
  ASSUME LcdInv, ShowButton \/ ShowSlice
  PROVE  LcdInv'
<1>1. CASE ShowButton
  <2>1. PICK b \in Buttons, on \in BOOLEAN :
          Draw([kind |-> "button", button |-> b, on |-> on], [wanted EXCEPT !.lit[b] = on])
        BY <1>1 DEF ShowButton
  <2>2. [kind |-> "button", button |-> b, on |-> on] \in Events
        BY DEF Events
  <2>3. QED
        BY <2>1, <2>2, Graphics
<1>2. CASE ShowSlice
  <2>1. PICK p \in Positions : Draw([kind |-> "slice", pos |-> p], [wanted EXCEPT !.pos = p])
        BY <1>2 DEF ShowSlice
  <2>2. [kind |-> "slice", pos |-> p] \in Events
        BY DEF Events
  <2>3. QED
        BY <2>1, <2>2, Graphics
<1>3. QED
      BY <1>1, <1>2

(* The LCD thread at an event without text, ...                            *)
LEMMA Drawn ==
  ASSUME LcdInv, DrawGraphics
  PROVE  LcdInv'
<1>1. /\ handling' = Nothing /\ UNCHANGED <<textbuffer, queue, later, main, leaked, raced>>
      /\ handling.kind \notin {"text", "drawn"}
      BY DEF DrawGraphics
<1>2. Types' /\ Waiting(queue)' /\ Waiting(later)'
      BY <1>1 DEF LcdInv, Types
<1>3. ASSUME ~raced, NEW i \in Indexes PROVE Kept(i)'
  <2>1. Kept(i) /\ ~Holds(handling, i) /\ ~Holds(handling', i)
        BY <1>1, <1>3, NotHeld DEF LcdInv, Holds
  <2>2. (ByMain(i)' <=> ByMain(i)) /\ (main'.kind = "found" /\ main'.buffer = i => textbuffer[i] = Free)
        BY <1>1, <2>1 DEF ByMain, Kept, Intact
  <2>3. QED
        BY <1>1, <2>1, <2>2, Untouched
<1>4. QED
      BY <1>1, <1>2, <1>3 DEF LcdInv

(* ... at a text, ...                                                      *)
LEMMA TextDrawn ==
  ASSUME LcdInv, DrawText
  PROVE  LcdInv'
<1>1. /\ handling.kind = "text" /\ handling' = [handling EXCEPT !.kind = "drawn"]
      /\ UNCHANGED <<textbuffer, queue, later, main, leaked, raced>>
      BY DEF DrawText
<1>2. handling \in TextEvents
      BY <1>1 DEF LcdInv, Types, Events, Nothing
<1>3. handling' \in TextEvents /\ handling'.kind = "drawn" /\ handling'.buffer = handling.buffer
      BY <1>1, <1>2 DEF TextEvents
<1>4. Types' /\ Waiting(queue)' /\ Waiting(later)'
      BY <1>1, <1>3 DEF LcdInv, Types, Events
<1>5. ASSUME ~raced, NEW i \in Indexes PROVE Kept(i)'
  <2>1. Kept(i) /\ (Holds(handling', i) <=> Holds(handling, i))
        BY <1>1, <1>3, <1>5 DEF LcdInv, Holds
  <2>2. (ByMain(i)' <=> ByMain(i)) /\ (main'.kind = "found" /\ main'.buffer = i => textbuffer[i] = Free)
        BY <1>1, <2>1 DEF ByMain, Kept, Intact
  <2>3. QED
        BY <1>1, <1>3, <2>1, <2>2, Untouched
<1>6. QED
      BY <1>1, <1>4, <1>5 DEF LcdInv

(* ... and where it gives its buffer back.                                 *)
LEMMA GivenBack ==
  ASSUME LcdInv, FreeBuffer
  PROVE  LcdInv'
<1>1. /\ handling.kind = "drawn" /\ handling' = Nothing
      /\ textbuffer' = [textbuffer EXCEPT ![handling.buffer] = Free]
      /\ UNCHANGED <<queue, later, main, leaked, raced>>
      BY DEF FreeBuffer
<1>2. handling.buffer \in Indexes
      BY <1>1 DEF LcdInv, Types, Events, TextEvents, Nothing
<1>3. Types' /\ Waiting(queue)' /\ Waiting(later)'
      BY <1>1, <1>2 DEF LcdInv, Types
<1>4. ASSUME ~raced, NEW i \in Indexes PROVE Kept(i)'
  <2>1. Kept(i) /\ ~Holds(handling', i) /\ (Holds(handling, i) <=> i = handling.buffer)
        BY <1>1, <1>4, NotHeld DEF LcdInv, Holds
  <2>2. ByMain(i)' <=> ByMain(i)
        BY <1>1 DEF ByMain
  <2>3. CASE i # handling.buffer
    <3>1. textbuffer'[i] = textbuffer[i] /\ (main'.kind = "found" /\ main'.buffer = i => textbuffer[i] = Free)
          BY <1>1, <2>1, <2>3 DEF LcdInv, Types, Kept, Intact
    <3>2. QED
          BY <1>1, <2>1, <2>2, <2>3, <3>1, Untouched
  <2>4. CASE i = handling.buffer
    <3>1. /\ \A k \in Nat : ~At(queue, i, k) /\ ~At(later, i, k)
          /\ ~ByMain(i) /\ i \notin leaked
          BY <2>1, <2>4 DEF Kept, OwnedOnce
    <3>2. ~Owned(i)' /\ OwnedOnce(i)'
          BY <1>1, <2>1, <2>2, <3>1 DEF Owned, OwnedOnce
    <3>3. textbuffer'[i] = Free
          BY <1>1, <1>2, <2>4 DEF LcdInv, Types
    <3>4. Intact(i)'
          BY <1>1, <2>1, <2>2, <3>1, <3>3 DEF Intact
    <3>5. QED
          BY <3>2, <3>3, <3>4 DEF Kept
  <2>5. QED
        BY <2>3, <2>4
<1>5. QED
      BY <1>1, <1>3, <1>4 DEF LcdInv
-----------------------------------------------------------------------------
LEMMA LcdStart == Init => LcdInv
<1> SUFFICES ASSUME Init PROVE LcdInv
    OBVIOUS
<1>1. /\ textbuffer = [i \in Indexes |-> Free] /\ queue = <<[kind |-> "startup"]>> /\ later = <<>>
      /\ handling = Nothing /\ main = Nothing /\ leaked = {} /\ raced = FALSE
      BY DEF Init
<1>2. [kind |-> "startup"] \in Events /\ [kind |-> "startup"].kind = "startup"
      BY DEF Events
<1>3. Types
  <2>1. queue \in Seq(Events) /\ later \in Seq(Events)
        BY <1>1, <1>2
  <2>2. textbuffer \in [Indexes -> Shown \cup {Free}] /\ raced \in BOOLEAN
        BY <1>1
  <2>3. QED
        BY <1>1, <2>1, <2>2 DEF Types
<1>4. /\ DOMAIN queue = {1} /\ queue[1].kind = "startup" /\ DOMAIN later = {}
      BY <1>1
<1>5. Waiting(queue) /\ Waiting(later)
      BY <1>4 DEF Waiting
<1>6. ASSUME NEW i \in Indexes PROVE Kept(i)
  <2>1. \A k \in Nat : ~At(queue, i, k) /\ ~At(later, i, k)
        BY <1>4 DEF At, Holds
  <2>2. ~Holds(handling, i) /\ ~ByMain(i) /\ i \notin leaked /\ textbuffer[i] = Free /\ main.kind # "found"
        BY <1>1, NotHeld DEF ByMain, Nothing
  <2>3. QED
        BY <2>1, <2>2 DEF Kept, Intact, OwnedOnce, Owned
<1>7. QED
      BY <1>3, <1>5, <1>6 DEF LcdInv

LEMMA LcdSteps == LcdInv /\ [Next]_vars => LcdInv'
<1> SUFFICES ASSUME LcdInv, [Next]_vars PROVE LcdInv'
    OBVIOUS
<1>1. CASE Callers
      BY <1>1, Find, Draws, Closes, Shows DEF Callers
<1>2. CASE MainGoesOn
      BY <1>2, Copy, Post DEF MainGoesOn
<1>3. CASE LcdThread
      BY <1>3, Take, TakeLater, Drawn, TextDrawn, GivenBack DEF LcdThread
<1>4. CASE UNCHANGED vars
      BY <1>4 DEF vars, LcdInv, Types, Kept, Intact, OwnedOnce, Owned, ByMain
<1>5. QED
      BY <1>1, <1>2, <1>3, <1>4 DEF Next

LEMMA LcdInvImplies == LcdInv => TextsKept
<1> SUFFICES ASSUME LcdInv, ~raced PROVE BuffersOwned /\ DrawnAsPassed
    BY DEF TextsKept, BuffersOwned, DrawnAsPassed
<1>1. ASSUME NEW i \in Indexes
      PROVE  IF textbuffer[i] = Free THEN Owners(i) = {}
                                     ELSE \E o \in Owners(i) : Owners(i) = {o}
  <2> DEFINE Due == {<<"due", k>> : k \in {k \in DOMAIN queue : Holds(queue[k], i)}}
             Delayed == {<<"delayed", k>> : k \in {k \in DOMAIN later : Holds(later[k], i)}}
             Handled == IF Holds(handling, i) THEN {<<"handled", 0>>} ELSE {}
             Mains == IF main.kind = "copied" /\ main.buffer = i THEN {<<"main", 0>>} ELSE {}
             Leaked == IF i \in leaked THEN {<<"leaked", 0>>} ELSE {}
  <2>1. Owners(i) = Due \cup Delayed \cup Handled \cup Mains \cup Leaked
        BY DEF Owners
  <2>2. Kept(i) /\ DOMAIN queue \subseteq Nat /\ DOMAIN later \subseteq Nat
        BY DEF LcdInv, Types
  <2>3. Due = {<<"due", k>> : k \in {k \in Nat : At(queue, i, k)}}
        BY <2>2 DEF At
  <2>4. Delayed = {<<"delayed", k>> : k \in {k \in Nat : At(later, i, k)}}
        BY <2>2 DEF At
  <2> HIDE DEF Due, Delayed
  <2>5. CASE ~Owned(i)
        BY <2>1, <2>2, <2>3, <2>4, <2>5 DEF Owned, Kept, ByMain
  <2>6. CASE \E k \in Nat : At(queue, i, k)
    <3>1. PICK k \in Nat : At(queue, i, k)
          BY <2>6
    <3>2. Due = {<<"due", k>>} /\ Delayed = {}
          BY <2>2, <2>3, <2>4, <3>1 DEF Kept, OwnedOnce
    <3>3. Handled = {} /\ Mains = {} /\ Leaked = {}
          BY <2>2, <3>1 DEF Kept, OwnedOnce, ByMain
    <3>4. textbuffer[i] # Free /\ Owners(i) = {<<"due", k>>}
          BY <2>1, <2>2, <3>1, <3>2, <3>3 DEF Kept, Owned
    <3>5. QED
          BY <3>4
  <2>7. CASE \E k \in Nat : At(later, i, k)
    <3>1. PICK k \in Nat : At(later, i, k)
          BY <2>7
    <3>2. Delayed = {<<"delayed", k>>} /\ Due = {}
          BY <2>2, <2>3, <2>4, <3>1 DEF Kept, OwnedOnce
    <3>3. Handled = {} /\ Mains = {} /\ Leaked = {}
          BY <2>2, <3>1 DEF Kept, OwnedOnce, ByMain
    <3>4. textbuffer[i] # Free /\ Owners(i) = {<<"delayed", k>>}
          BY <2>1, <2>2, <3>1, <3>2, <3>3 DEF Kept, Owned
    <3>5. QED
          BY <3>4
  <2>8. CASE Holds(handling, i) \/ ByMain(i) \/ i \in leaked
    <3>1. Due = {} /\ Delayed = {}
          BY <2>2, <2>3, <2>4, <2>8 DEF Kept, OwnedOnce
    <3>2. \E o : Handled \cup Mains \cup Leaked = {o}
          BY <2>2, <2>8 DEF Kept, OwnedOnce, ByMain
    <3>3. textbuffer[i] # Free
          BY <2>2, <2>8 DEF Kept, Owned
    <3>4. QED
          BY <2>1, <3>1, <3>2, <3>3
  <2>9. QED
        BY <2>5, <2>6, <2>7, <2>8 DEF Owned
<1>2. ASSUME handling.kind = "text" PROVE textbuffer[handling.buffer] = handling.passed
  <2>1. handling.buffer \in Indexes
        BY <1>2 DEF LcdInv, Types, Events, TextEvents, Nothing
  <2>2. QED
        BY <1>2, <2>1 DEF LcdInv, Kept, Intact, Holds
<1>3. QED
      BY <1>1, <1>2 DEF BuffersOwned, DrawnAsPassed

(* For any number of buffers and any size of the queue: a buffer that is   *)
(* taken has one owner, and what is drawn for a call is its text, as long  *)
(* as no buffer was claimed under main (lcd_draw_text).                    *)
THEOREM BuffersKeepTexts == Spec => []TextsKept
BY LcdStart, LcdSteps, LcdInvImplies, PTL DEF Spec
-----------------------------------------------------------------------------
(* Of the events of kind E in s the last one is in G; or there is none.    *)
Ends(s, E, G) ==
    \E k \in DOMAIN s : s[k] \in E \cap G /\ (\A l \in DOMAIN s : l > k => s[l] \notin E)
None(s, E) == \A k \in DOMAIN s : s[k] \notin E

(* With queue q and the LCD thread at h the last event of kind E that is   *)
(* still to be drawn is in G; or none is.                                  *)
Right(q, h, E, G) ==
    /\ Ends(q, E, G) \/ None(q, E)
    /\ None(q, E) /\ h \in E => h \in G
Drained(q, h, E) == None(q, E) /\ h \notin E

LEMMA AppendAsked ==
  ASSUME NEW s \in Seq(Events), NEW ev \in Events, NEW E, NEW G, ev \in E \cap G
  PROVE  Ends(Append(s, ev), E, G)
<1>1. DOMAIN Append(s, ev) = 1 .. Len(s) + 1 /\ Append(s, ev)[Len(s) + 1] = ev /\ Len(s) \in Nat
      OBVIOUS
<1>2. Len(s) + 1 \in DOMAIN Append(s, ev) /\ \A l \in DOMAIN Append(s, ev) : ~(l > Len(s) + 1)
      BY <1>1
<1>3. QED
      BY <1>1, <1>2 DEF Ends

LEMMA AppendOther ==
  ASSUME NEW s \in Seq(Events), NEW ev \in Events, NEW E, NEW G, ev \notin E
  PROVE  /\ Ends(s, E, G) => Ends(Append(s, ev), E, G)
         /\ None(s, E) <=> None(Append(s, ev), E)
<1>1. /\ DOMAIN Append(s, ev) = 1 .. Len(s) + 1 /\ DOMAIN s = 1 .. Len(s) /\ Len(s) \in Nat
      /\ Append(s, ev)[Len(s) + 1] = ev
      /\ \A k \in DOMAIN s : Append(s, ev)[k] = s[k]
      OBVIOUS
<1>2. \A k \in DOMAIN Append(s, ev) : k \in DOMAIN s \/ k = Len(s) + 1
      BY <1>1
<1>3. DOMAIN s \subseteq DOMAIN Append(s, ev)
      BY <1>1
<1> HIDE <1>1
<1>4. ASSUME Ends(s, E, G) PROVE Ends(Append(s, ev), E, G)
  <2>1. PICK k \in DOMAIN s : s[k] \in E \cap G /\ \A l \in DOMAIN s : l > k => s[l] \notin E
        BY <1>4 DEF Ends
  <2>2. Append(s, ev)[k] \in E \cap G /\ k \in DOMAIN Append(s, ev)
        BY <1>1, <1>3, <2>1
  <2>3. \A l \in DOMAIN Append(s, ev) : l > k => Append(s, ev)[l] \notin E
        BY <1>1, <1>2, <2>1
  <2>4. QED
        BY <2>2, <2>3 DEF Ends
<1>5. None(s, E) <=> None(Append(s, ev), E)
      BY <1>1, <1>2, <1>3 DEF None
<1>6. QED
      BY <1>4, <1>5

LEMMA TailAsked ==
  ASSUME NEW s \in Seq(Events), s # <<>>, NEW E, NEW G
  PROVE  /\ Ends(s, E, G) => Ends(Tail(s), E, G) \/ (None(Tail(s), E) /\ Head(s) \in E \cap G)
         /\ None(s, E) <=> None(Tail(s), E) /\ Head(s) \notin E
<1>1. /\ DOMAIN s = 1 .. Len(s) /\ Len(s) \in Nat \ {0} /\ DOMAIN Tail(s) = 1 .. Len(s) - 1
      /\ Head(s) = s[1] /\ 1 \in DOMAIN s
      OBVIOUS
<1>2. \A k \in DOMAIN Tail(s) : k \in Nat /\ k + 1 \in DOMAIN s /\ Tail(s)[k] = s[k + 1]
      BY <1>1
<1>3. \A k \in DOMAIN s : k # 1 => k \in Nat /\ k - 1 \in DOMAIN Tail(s) /\ Tail(s)[k - 1] = s[k]
      BY <1>1
<1>4. ASSUME Ends(s, E, G)
      PROVE  Ends(Tail(s), E, G) \/ (None(Tail(s), E) /\ Head(s) \in E \cap G)
  <2>1. PICK k \in DOMAIN s : s[k] \in E \cap G /\ \A l \in DOMAIN s : l > k => s[l] \notin E
        BY <1>4 DEF Ends
  <2>2. CASE k = 1
    <3>1. None(Tail(s), E)
          BY <1>2, <2>1, <2>2 DEF None
    <3>2. QED
          BY <1>1, <2>1, <2>2, <3>1
  <2>3. CASE k # 1
    <3>1. k - 1 \in DOMAIN Tail(s) /\ Tail(s)[k - 1] \in E \cap G /\ k \in Nat
          BY <1>3, <2>1, <2>3
    <3>2. \A l \in DOMAIN Tail(s) : l > k - 1 => Tail(s)[l] \notin E
      <4> SUFFICES ASSUME NEW l \in DOMAIN Tail(s), l > k - 1 PROVE Tail(s)[l] \notin E
          OBVIOUS
      <4>1. l + 1 \in DOMAIN s /\ l + 1 > k /\ Tail(s)[l] = s[l + 1]
            BY <1>2, <3>1
      <4>2. QED
            BY <2>1, <4>1
    <3>3. QED
          BY <3>1, <3>2 DEF Ends
  <2>4. QED
        BY <2>2, <2>3
<1>5. None(s, E) <=> None(Tail(s), E) /\ Head(s) \notin E
      BY <1>1, <1>2, <1>3 DEF None
<1>6. QED
      BY <1>4, <1>5

(* Another event, another place of the LCD thread.                         *)
LEMMA OtherKind ==
  ASSUME NEW q \in Seq(Events), NEW q2, NEW h, NEW h2, NEW E, NEW G, Right(q, h, E, G),
         q2 = q \/ (\E ev \in Events : ev \notin E /\ q2 = Append(q, ev)),
         h2 = h \/ (h \notin E /\ h2 \notin E)
  PROVE  Right(q2, h2, E, G) /\ (Drained(q2, h2, E) => Drained(q, h, E))
<1>1. (Ends(q, E, G) => Ends(q2, E, G)) /\ (None(q, E) <=> None(q2, E))
  <2>1. CASE q2 = q
        BY <2>1
  <2>2. CASE \E ev \in Events : ev \notin E /\ q2 = Append(q, ev)
        BY <2>2, AppendOther
  <2>3. QED
        BY <2>1, <2>2
<1>2. QED
      BY <1>1 DEF Right, Drained

LEMMA Asked ==
  ASSUME NEW q \in Seq(Events), NEW ev \in Events, NEW h, NEW E, NEW G, ev \in E \cap G
  PROVE  Right(Append(q, ev), h, E, G) /\ ~Drained(Append(q, ev), h, E)
<1>1. Ends(Append(q, ev), E, G)
      BY AppendAsked
<1>2. ~None(Append(q, ev), E)
      BY <1>1 DEF Ends, None
<1>3. QED
      BY <1>1, <1>2 DEF Right, Drained

LEMMA Taken ==
  ASSUME NEW q \in Seq(Events), q # <<>>, NEW h, NEW E, NEW G, h \notin E, Right(q, h, E, G)
  PROVE  /\ Right(Tail(q), Head(q), E, G)
         /\ Drained(Tail(q), Head(q), E) => Drained(q, h, E)
<1>1. Ends(Tail(q), E, G) => ~None(Tail(q), E)
      BY DEF Ends, None
<1>2. QED
      BY <1>1, TailAsked DEF Right, Drained
-----------------------------------------------------------------------------
Lights(b) ==
    {ev \in Events : ev.kind = "startup" \/ (ev.kind = "button" /\ ev.button = b)}
LightsTo(b, on) ==
    {ev \in Events : \/ ev.kind = "startup" /\ on = FALSE
                     \/ ev.kind = "button" /\ ev.button = b /\ ev.on = on}
Moves == {ev \in Events : ev.kind \in {"startup", "slice"}}
MovesTo(p) ==
    {ev \in Events : \/ ev.kind = "startup" /\ p = 180
                     \/ ev.kind = "slice" /\ ev.pos = p}

Near(a, b) == Distance(a, b) < MIN_SLICE

ShownTypes ==
    /\ lit \in [Buttons -> BOOLEAN] /\ lcd_slice_pos \in Int
    /\ wanted # Refused => wanted \in [lit : [Buttons -> BOOLEAN], pos : Int]
    /\ \A k \in DOMAIN later : later[k].kind = "text"

ButtonRight(b) ==
    /\ Right(queue, handling, Lights(b), LightsTo(b, wanted.lit[b]))
    /\ Drained(queue, handling, Lights(b)) => lit[b] = wanted.lit[b]

SliderRight ==
    /\ Right(queue, handling, Moves, MovesTo(wanted.pos))
    /\ Drained(queue, handling, Moves) => Near(lcd_slice_pos, wanted.pos)

(* As long as no event was refused, the last one of a button that is still *)
(* to come, or what is lit, is what was asked for; and so of the slider,   *)
(* to within MIN_SLICE.                                                    *)
ShownInv ==
    /\ LcdInv /\ ShownTypes
    /\ wanted # Refused => SliderRight /\ \A b \in Buttons : ButtonRight(b)

NoGraphic(ev) == ev \notin Moves /\ \A b \in Buttons : ev \notin Lights(b)

LEMMA TextsAreNoGraphics ==
  /\ \A ev \in TextEvents : ev \in Events /\ NoGraphic(ev)
  /\ NoGraphic(Nothing)
BY DEF NoGraphic, Moves, Lights, TextEvents, Events, Nothing

(* A step that has to do with texts only.                                  *)
LEMMA TextStep ==
  ASSUME ShownInv, UNCHANGED <<wanted, lit, lcd_slice_pos>>, LcdInv',
         queue' = queue \/ (\E ev \in TextEvents : queue' = Append(queue, ev)),
         handling' = handling \/ (NoGraphic(handling) /\ NoGraphic(handling')),
         \A k \in DOMAIN later' : later'[k].kind = "text"
  PROVE  ShownInv'
<1>1. ShownTypes' /\ queue \in Seq(Events)
      BY DEF ShownInv, ShownTypes, LcdInv, Types
<1>2. ASSUME wanted # Refused PROVE SliderRight'
  <2>1. /\ Right(queue', handling', Moves, MovesTo(wanted.pos))
        /\ Drained(queue', handling', Moves) => Drained(queue, handling, Moves)
        BY <1>1, <1>2, TextsAreNoGraphics, OtherKind DEF ShownInv, SliderRight, NoGraphic
  <2>2. QED
        BY <1>2, <2>1 DEF SliderRight, ShownInv
<1>3. ASSUME wanted # Refused, NEW b \in Buttons PROVE ButtonRight(b)'
  <2>1. /\ Right(queue', handling', Lights(b), LightsTo(b, wanted.lit[b]))
        /\ Drained(queue', handling', Lights(b)) => Drained(queue, handling, Lights(b))
        BY <1>1, <1>3, TextsAreNoGraphics, OtherKind DEF ShownInv, ButtonRight, NoGraphic
  <2>2. QED
        BY <1>3, <2>1 DEF ButtonRight, ShownInv
<1>4. QED
      BY <1>1, <1>2, <1>3 DEF ShownInv

LEMMA TextSteps ==
  ASSUME ShownInv, LcdInv',
         MainFinds \/ MainCopies \/ MainPosts \/ AwsDraws \/ AwsCloses \/ DrawText \/ FreeBuffer
  PROVE  ShownInv'
<1> USE DEF ShownInv, ShownTypes, LcdInv, Types
<1>1. CASE MainFinds \/ MainCopies
      BY <1>1, TextStep DEF MainFinds, MainCopies, screenVars
<1>2. CASE MainPosts
  <2>1. main \in Calls
        BY <1>2 DEF MainPosts, Nothing
  <2>2. TextEvent(main.buffer, main.text, main.line) \in TextEvents
        BY <2>1 DEF Calls, TextEvent, TextEvents, Shown
  <2>3. QED
        BY <1>2, <2>2, TextStep DEF MainPosts, PostText, screenVars
<1>3. CASE AwsDraws
  <2>1. PICK i \in FreeBuffers, text \in Texts, line \in Lines : PostText(TextEvent(i, text, line))
        BY <1>3 DEF AwsDraws
  <2>2. TextEvent(i, text, line) \in TextEvents
        BY DEF TextEvent, TextEvents, Shown, FreeBuffers
  <2>3. UNCHANGED <<handling, main, screenVars, wanted>>
        BY <1>3 DEF AwsDraws
  <2>4. QED
        BY <2>1, <2>2, <2>3, TextStep DEF PostText, screenVars
<1>4. CASE AwsCloses
  <2>1. PICK i \in FreeBuffers, j \in FreeBuffers, text \in Texts, line \in Lines :
          /\ queue' = IF Room = 0 THEN queue ELSE Append(queue, TextEvent(i, text, line))
          /\ later' = IF Room < 2 THEN later ELSE Append(later, TextEvent(j, NoText, line))
        BY <1>4 DEF AwsCloses
  <2>2. /\ TextEvent(i, text, line) \in TextEvents /\ TextEvent(j, NoText, line) \in Events
        /\ TextEvent(j, NoText, line).kind = "text"
        BY DEF TextEvent, TextEvents, Events, Shown, FreeBuffers
  <2>3. UNCHANGED <<handling, main, screenVars, wanted>>
        BY <1>4 DEF AwsCloses
  <2>4. \A k \in DOMAIN later' : later'[k].kind = "text"
    <3>1. CASE later' = later
          BY <3>1
    <3>2. CASE later' = Append(later, TextEvent(j, NoText, line))
          BY <2>2, <3>2
    <3>3. QED
          BY <2>1, <3>1, <3>2
  <2>5. queue' = queue \/ (\E ev \in TextEvents : queue' = Append(queue, ev))
        BY <2>1, <2>2
  <2>6. QED
        BY <2>3, <2>4, <2>5, TextStep DEF screenVars
<1>5. CASE DrawText \/ FreeBuffer
  <2>1. NoGraphic(handling) /\ NoGraphic(handling')
    <3>1. handling \in TextEvents
          BY <1>5 DEF DrawText, FreeBuffer, Events, TextEvents, Nothing
    <3>2. handling' \in TextEvents \cup {Nothing}
          BY <1>5, <3>1 DEF DrawText, FreeBuffer, TextEvents
    <3>3. QED
          BY <3>1, <3>2, TextsAreNoGraphics
  <2>2. UNCHANGED <<wanted, lit, lcd_slice_pos, queue, later>>
        BY <1>5 DEF DrawText, FreeBuffer, screenVars
  <2>3. QED
        BY <2>1, <2>2, TextStep
<1>6. QED
      BY <1>1, <1>2, <1>3, <1>4, <1>5

(* A button or the slider is asked for.                                    *)
LEMMA ButtonAsked ==
  ASSUME ShownInv, LcdInv', ShowButton
  PROVE  ShownInv'
<1>1. PICK b \in Buttons, on \in BOOLEAN :
        Draw([kind |-> "button", button |-> b, on |-> on], [wanted EXCEPT !.lit[b] = on])
      BY DEF ShowButton
<1> DEFINE ev == [kind |-> "button", button |-> b, on |-> on]
<1>2. ev \in Events /\ ev \notin Moves /\ ev \in Lights(b) \cap LightsTo(b, on)
      BY DEF Events, Moves, Lights, LightsTo
<1>3. \A c \in Buttons \ {b} : ev \notin Lights(c)
      BY DEF Lights
<1>4. UNCHANGED <<handling, later, lit, lcd_slice_pos>>
      BY <1>1 DEF Draw, screenVars
<1>5. ASSUME wanted' # Refused
      PROVE  /\ queue' = Append(queue, ev) /\ wanted # Refused
             /\ wanted' = [wanted EXCEPT !.lit[b] = on]
      BY <1>1, <1>5 DEF Draw
<1> HIDE DEF ev
<1>6. queue \in Seq(Events) /\ (wanted # Refused => wanted \in [lit : [Buttons -> BOOLEAN], pos : Int])
      BY DEF ShownInv, ShownTypes, LcdInv, Types
<1>7. ASSUME wanted' # Refused
      PROVE  /\ wanted' \in [lit : [Buttons -> BOOLEAN], pos : Int]
             /\ wanted'.pos = wanted.pos /\ wanted'.lit[b] = on
             /\ \A c \in Buttons \ {b} : wanted'.lit[c] = wanted.lit[c]
      BY <1>5, <1>6, <1>7
<1>8. ShownTypes'
      BY <1>4, <1>7 DEF ShownInv, ShownTypes
<1>9. ASSUME wanted' # Refused PROVE SliderRight'
  <2>1. /\ Right(queue', handling', Moves, MovesTo(wanted.pos))
        /\ Drained(queue', handling', Moves) => Drained(queue, handling, Moves)
        BY <1>2, <1>4, <1>5, <1>6, <1>9, OtherKind DEF ShownInv, SliderRight
  <2>2. QED
        BY <1>4, <1>5, <1>7, <1>9, <2>1 DEF SliderRight, ShownInv
<1>10. ASSUME wanted' # Refused PROVE ButtonRight(b)'
  <2>1. Right(queue', handling', Lights(b), LightsTo(b, on)) /\ ~Drained(queue', handling', Lights(b))
    <3>1. /\ Right(Append(queue, ev), handling, Lights(b), LightsTo(b, on))
          /\ ~Drained(Append(queue, ev), handling, Lights(b))
          BY <1>2, <1>6, Asked
    <3>2. QED
          BY <1>4, <1>5, <1>10, <3>1
  <2>2. QED
        BY <1>7, <1>10, <2>1 DEF ButtonRight
<1>11. ASSUME wanted' # Refused, NEW c \in Buttons \ {b} PROVE ButtonRight(c)'
  <2>1. /\ Right(queue', handling', Lights(c), LightsTo(c, wanted.lit[c]))
        /\ Drained(queue', handling', Lights(c)) => Drained(queue, handling, Lights(c))
    <3>1. Right(queue, handling, Lights(c), LightsTo(c, wanted.lit[c]))
          BY <1>5, <1>11 DEF ShownInv, ButtonRight
    <3>2. QED
          BY <1>2, <1>3, <1>4, <1>5, <1>6, <1>11, <3>1, OtherKind
  <2>2. QED
        BY <1>4, <1>5, <1>7, <1>11, <2>1 DEF ButtonRight, ShownInv
<1>12. QED
       BY <1>8, <1>9, <1>10, <1>11 DEF ShownInv

LEMMA SliceAsked ==
  ASSUME ShownInv, LcdInv', ShowSlice
  PROVE  ShownInv'
<1>1. PICK p \in Positions : Draw([kind |-> "slice", pos |-> p], [wanted EXCEPT !.pos = p])
      BY DEF ShowSlice
<1> DEFINE ev == [kind |-> "slice", pos |-> p]
<1>2. ev \in Events /\ ev \in Moves \cap MovesTo(p) /\ p \in Int
      BY PositionsAssumption DEF Events, Moves, MovesTo
<1>3. \A c \in Buttons : ev \notin Lights(c)
      BY DEF Lights
<1>4. UNCHANGED <<handling, later, lit, lcd_slice_pos>>
      BY <1>1 DEF Draw, screenVars
<1>5. ASSUME wanted' # Refused
      PROVE  queue' = Append(queue, ev) /\ wanted # Refused /\ wanted' = [wanted EXCEPT !.pos = p]
      BY <1>1, <1>5 DEF Draw
<1> HIDE DEF ev
<1>6. queue \in Seq(Events) /\ (wanted # Refused => wanted \in [lit : [Buttons -> BOOLEAN], pos : Int])
      BY DEF ShownInv, ShownTypes, LcdInv, Types
<1>7. ASSUME wanted' # Refused
      PROVE  /\ wanted' \in [lit : [Buttons -> BOOLEAN], pos : Int]
             /\ wanted'.pos = p /\ wanted'.lit = wanted.lit
      BY <1>2, <1>5, <1>6, <1>7
<1>8. ShownTypes'
      BY <1>4, <1>7 DEF ShownInv, ShownTypes
<1>9. ASSUME wanted' # Refused PROVE SliderRight'
  <2>1. Right(queue', handling', Moves, MovesTo(p)) /\ ~Drained(queue', handling', Moves)
    <3>1. /\ Right(Append(queue, ev), handling, Moves, MovesTo(p))
          /\ ~Drained(Append(queue, ev), handling, Moves)
          BY <1>2, <1>6, Asked
    <3>2. QED
          BY <1>4, <1>5, <1>9, <3>1
  <2>2. QED
        BY <1>7, <1>9, <2>1 DEF SliderRight
<1>10. ASSUME wanted' # Refused, NEW c \in Buttons PROVE ButtonRight(c)'
  <2>1. /\ Right(queue', handling', Lights(c), LightsTo(c, wanted.lit[c]))
        /\ Drained(queue', handling', Lights(c)) => Drained(queue, handling, Lights(c))
        BY <1>2, <1>3, <1>4, <1>5, <1>6, <1>10, OtherKind DEF ShownInv, ButtonRight
  <2>2. QED
        BY <1>4, <1>5, <1>7, <1>10, <2>1 DEF ButtonRight, ShownInv
<1>11. QED
       BY <1>8, <1>9, <1>10 DEF ShownInv

(* The LCD thread takes an event, ...                                      *)
LEMMA EventTaken ==
  ASSUME ShownInv, LcdInv', TakeDue \/ TakeDelayed
  PROVE  ShownInv'
<1>1. /\ queue \in Seq(Events) /\ later \in Seq(Events) /\ handling = Nothing
      /\ UNCHANGED <<wanted, lit, lcd_slice_pos>>
      BY DEF ShownInv, LcdInv, Types, TakeDue, TakeDelayed, screenVars
<1>2. CASE TakeDue
  <2>1. queue # <<>> /\ handling' = Head(queue) /\ queue' = Tail(queue) /\ later' = later
        BY <1>2 DEF TakeDue
  <2>2. ShownTypes'
        BY <1>1, <2>1 DEF ShownInv, ShownTypes
  <2>3. handling \notin Moves /\ \A b \in Buttons : handling \notin Lights(b)
        BY <1>1, TextsAreNoGraphics DEF NoGraphic
  <2>4. ASSUME wanted # Refused PROVE SliderRight'
    <3>1. /\ Right(queue', handling', Moves, MovesTo(wanted.pos))
          /\ Drained(queue', handling', Moves) => Drained(queue, handling, Moves)
          BY <1>1, <2>1, <2>3, <2>4, Taken DEF ShownInv, SliderRight
    <3>2. QED
          BY <1>1, <2>4, <3>1 DEF SliderRight, ShownInv
  <2>5. ASSUME wanted # Refused, NEW b \in Buttons PROVE ButtonRight(b)'
    <3>1. /\ Right(queue', handling', Lights(b), LightsTo(b, wanted.lit[b]))
          /\ Drained(queue', handling', Lights(b)) => Drained(queue, handling, Lights(b))
          BY <1>1, <2>1, <2>3, <2>5, Taken DEF ShownInv, ButtonRight
    <3>2. QED
          BY <1>1, <2>5, <3>1 DEF ButtonRight, ShownInv
  <2>6. QED
        BY <1>1, <2>2, <2>4, <2>5 DEF ShownInv
<1>3. CASE TakeDelayed
  <2>1. later # <<>> /\ handling' = Head(later) /\ later' = Tail(later) /\ queue' = queue
        BY <1>3 DEF TakeDelayed
  <2>2. \A k \in DOMAIN later : later[k] \in Events /\ later[k].kind = "text"
        BY <1>1 DEF ShownInv, ShownTypes
  <2>3. /\ Head(later) = later[1] /\ 1 \in DOMAIN later
        /\ \A k \in DOMAIN Tail(later) : k + 1 \in DOMAIN later /\ Tail(later)[k] = later[k + 1]
        BY <1>1, <2>1
  <2>4. handling' \in TextEvents
        BY <2>1, <2>2, <2>3 DEF Events
  <2>5. \A k \in DOMAIN later' : later'[k].kind = "text"
        BY <2>1, <2>2, <2>3
  <2>6. QED
        BY <1>1, <2>1, <2>4, <2>5, TextsAreNoGraphics, TextStep
<1>4. QED
      BY <1>2, <1>3

(* ... and draws it, if it is a button or the slider.                      *)
LEMMA GraphicDrawn ==
  ASSUME ShownInv, LcdInv', DrawGraphics
  PROVE  ShownInv'
<1>1. /\ handling \in Events /\ handling.kind \in {"startup", "button", "slice"}
      /\ handling' = Nothing /\ UNCHANGED <<queue, later, wanted>>
      /\ lit \in [Buttons -> BOOLEAN] /\ lcd_slice_pos \in Int
      BY DEF DrawGraphics, ShownInv, ShownTypes, LcdInv, Types, Nothing
<1>2. Nothing \notin Moves /\ \A b \in Buttons : Nothing \notin Lights(b)
      BY TextsAreNoGraphics DEF NoGraphic
<1>3. \A p \in Int : SliceDrawn(p) => lcd_slice_pos' \in Int /\ Near(lcd_slice_pos', p)
      BY <1>1 DEF SliceDrawn, Near, Distance, MIN_SLICE
<1>4. /\ handling.kind = "startup" => lit' = [b \in Buttons |-> FALSE] /\ SliceDrawn(180)
      /\ handling.kind = "button" =>
            lit' = [lit EXCEPT ![handling.button] = handling.on] /\ lcd_slice_pos' = lcd_slice_pos
      /\ handling.kind = "slice" => SliceDrawn(handling.pos) /\ lit' = lit
      BY DEF DrawGraphics
<1>5. /\ handling.kind = "button" => handling.button \in Buttons /\ handling.on \in BOOLEAN
      /\ handling.kind = "slice" => handling.pos \in Int
      BY <1>1, PositionsAssumption DEF Events, TextEvents
<1>6. lit' \in [Buttons -> BOOLEAN] /\ lcd_slice_pos' \in Int
  <2>1. lit' \in [Buttons -> BOOLEAN]
        BY <1>1, <1>4, <1>5
  <2>2. 180 \in Int /\ (SliceDrawn(180) => lcd_slice_pos' \in Int)
        BY <1>3
  <2>3. handling.kind = "slice" => lcd_slice_pos' \in Int
        BY <1>3, <1>4, <1>5
  <2>4. QED
        BY <1>1, <1>4, <2>1, <2>2, <2>3
<1>7. ShownTypes'
      BY <1>1, <1>6 DEF ShownInv, ShownTypes
<1>8. ASSUME wanted # Refused PROVE SliderRight'
  <2>1. SliderRight
        BY <1>8 DEF ShownInv
  <2>2. Right(queue', handling', Moves, MovesTo(wanted.pos))
        BY <1>1, <1>2, <2>1 DEF SliderRight, Right
  <2>3. ASSUME None(queue, Moves) PROVE Near(lcd_slice_pos', wanted.pos)
    <3>1. CASE handling \in Moves
      <4>1. handling \in MovesTo(wanted.pos)
            BY <2>1, <2>3, <3>1 DEF SliderRight, Right
      <4>2. QED
            BY <1>3, <1>4, <1>5, <4>1 DEF MovesTo
    <3>2. CASE handling \notin Moves
      <4>1. handling.kind = "button" /\ Near(lcd_slice_pos, wanted.pos)
            BY <1>1, <2>1, <2>3, <3>2 DEF SliderRight, Drained, Moves
      <4>2. QED
            BY <1>4, <4>1
    <3>3. QED
          BY <3>1, <3>2
  <2>4. QED
        BY <1>1, <2>2, <2>3 DEF SliderRight, Drained
<1>9. ASSUME wanted # Refused, NEW b \in Buttons PROVE ButtonRight(b)'
  <2>1. ButtonRight(b)
        BY <1>9 DEF ShownInv
  <2>2. Right(queue', handling', Lights(b), LightsTo(b, wanted.lit[b]))
        BY <1>1, <1>2, <2>1 DEF ButtonRight, Right
  <2>3. ASSUME None(queue, Lights(b)) PROVE lit'[b] = wanted.lit[b]
    <3>1. CASE handling \in Lights(b)
      <4>1. handling \in LightsTo(b, wanted.lit[b])
            BY <2>1, <2>3, <3>1 DEF ButtonRight, Right
      <4>2. QED
            BY <1>1, <1>4, <1>5, <4>1 DEF LightsTo
    <3>2. CASE handling \notin Lights(b)
      <4>1. /\ handling.kind \in {"button", "slice"} /\ (handling.kind = "button" => handling.button # b)
            /\ lit[b] = wanted.lit[b]
            BY <1>1, <2>1, <2>3, <3>2 DEF ButtonRight, Drained, Lights
      <4>2. QED
            BY <1>1, <1>4, <1>5, <4>1
    <3>3. QED
          BY <3>1, <3>2
  <2>4. QED
        BY <1>1, <2>2, <2>3 DEF ButtonRight, Drained
<1>10. QED
       BY <1>1, <1>7, <1>8, <1>9 DEF ShownInv

LEMMA ShownStart == Init => ShownInv
<1> SUFFICES ASSUME Init PROVE ShownInv
    OBVIOUS
<1> DEFINE start == [kind |-> "startup"]
<1>1. /\ queue = <<start>> /\ later = <<>> /\ handling = Nothing
      /\ lit = [b \in Buttons |-> FALSE] /\ lcd_slice_pos = -250
      /\ wanted = [lit |-> lit, pos |-> 180]
      BY DEF Init
<1>2. /\ start \in Moves \cap MovesTo(180)
      /\ \A b \in Buttons : start \in Lights(b) \cap LightsTo(b, FALSE)
      BY DEF Moves, MovesTo, Lights, LightsTo, Events
<1>3. \A E, G : start \in E \cap G => Ends(queue, E, G) /\ ~None(queue, E)
  <2>1. DOMAIN queue = {1} /\ queue[1] = start
        BY <1>1
  <2>2. ~(1 > 1)
        OBVIOUS
  <2>3. QED
        BY <2>1, <2>2 DEF Ends, None
<1>4. ShownTypes
      BY <1>1 DEF ShownTypes
<1>5. SliderRight
      BY <1>1, <1>2, <1>3 DEF SliderRight, Right, Drained
<1>6. ASSUME NEW b \in Buttons PROVE ButtonRight(b)
      BY <1>1, <1>2, <1>3 DEF ButtonRight, Right, Drained
<1>7. QED
      BY <1>4, <1>5, <1>6, LcdStart DEF ShownInv

LEMMA ShownSteps == ShownInv /\ [Next]_vars => ShownInv'
<1> SUFFICES ASSUME ShownInv, [Next]_vars PROVE ShownInv'
    OBVIOUS
<1>1. LcdInv'
      BY LcdSteps DEF ShownInv
<1>2. CASE Callers
      BY <1>1, <1>2, TextSteps, ButtonAsked, SliceAsked DEF Callers
<1>3. CASE MainGoesOn
      BY <1>1, <1>3, TextSteps DEF MainGoesOn
<1>4. CASE LcdThread
      BY <1>1, <1>4, EventTaken, GraphicDrawn, TextSteps DEF LcdThread
<1>5. CASE UNCHANGED vars
  <2>1. UNCHANGED <<wanted, lit, lcd_slice_pos, queue, later, handling>>
        BY <1>5 DEF vars, screenVars
  <2>2. QED
        BY <1>1, <2>1, TextStep DEF ShownInv, ShownTypes
<1>6. QED
      BY <1>2, <1>3, <1>4, <1>5 DEF Next

LEMMA ShownInvImplies == ShownInv => ShownAsWanted
<1> SUFFICES ASSUME ShownInv, queue = <<>>, handling = Nothing, wanted # Refused
             PROVE  lit = wanted.lit /\ Distance(lcd_slice_pos, wanted.pos) < MIN_SLICE
    BY DEF ShownAsWanted
<1>1. Drained(queue, handling, Moves) /\ \A b \in Buttons : Drained(queue, handling, Lights(b))
      BY TextsAreNoGraphics DEF Drained, None, NoGraphic
<1>2. lit \in [Buttons -> BOOLEAN] /\ wanted.lit \in [Buttons -> BOOLEAN]
      BY DEF ShownInv, ShownTypes
<1>3. \A b \in Buttons : lit[b] = wanted.lit[b]
      BY <1>1 DEF ShownInv, ButtonRight
<1>4. QED
      BY <1>1, <1>2, <1>3 DEF ShownInv, SliderRight, Near

(* For any number of buffers, buttons and positions and any size of the    *)
(* queue: at rest the display shows the buttons and the slider as they     *)
(* were last asked for (lcd_show_button, lcd_show_slice), unless the queue *)
(* was once full for one of them.                                          *)
THEOREM DisplayFollows == Spec => []ShownAsWanted
BY ShownStart, ShownSteps, ShownInvImplies, PTL DEF Spec
=============================================================================
