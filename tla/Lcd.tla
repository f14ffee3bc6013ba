-------------------------------- MODULE Lcd ---------------------------------
(***************************************************************************)
(* The display, lcd_ui.cpp: texts are copied into one of a few buffers and *)
(* drawn, with the buttons and the slider, by the thread of an event queue *)
(* of limited size.  A buffer whose first character is '^' is free; it is  *)
(* claimed without a lock.  The AWS thread has a higher priority than main *)
(* and the LCD thread: its calls run to their end between two of their     *)
(* steps.                                                                  *)
(***************************************************************************)
EXTENDS Integers, Sequences

CONSTANTS
    NumBuffers,        \* of textbuffer
    MaxEvents,         \* events the queue has room for
    Texts, Lines,      \* what is shown, and where
    Buttons, Positions

ASSUME BuffersAssumption == NumBuffers \in Nat \ {0}
ASSUME EventsAssumption  == MaxEvents \in Nat \ {0}
ASSUME PositionsAssumption == Positions \subseteq Int

Free == "^"
NoText == ""
ASSUME TextsAssumption == {Free, NoText} \cap Texts = {}

VARIABLES
    textbuffer,
    queue, later,      \* events due, and events of call_in
    handling,          \* the event the LCD thread is at, or Nothing
    main,              \* the call main is in, or Nothing
    screen, lit, lcd_slice_pos,   \* what is drawn
    wanted,            \* history: the buttons and slider last asked for, or
                       \* Refused when the queue was once full for one
    leaked,            \* history: buffers whose event was refused
    raced              \* history: a buffer was claimed under main

screenVars == <<screen, lit, lcd_slice_pos>>
vars == <<textbuffer, queue, later, handling, main, screenVars, wanted, leaked, raced>>

Nothing == [kind |-> "none"]
MIN_SLICE == 5
Refused == [lit |-> <<>>, pos |-> 0]
Indexes == 1 .. NumBuffers

TextEvent(i, text, line) ==
    [kind |-> "text", buffer |-> i, passed |-> text, line |-> line]

(* lcd_StartUp starts the thread and calls lcd_startup_thread.             *)
Init ==
    /\ textbuffer = [i \in Indexes |-> Free]
    /\ queue = <<[kind |-> "startup"]>> /\ later = <<>>
    /\ handling = Nothing /\ main = Nothing
    /\ screen = [l \in Lines |-> NoText]
    /\ lit = [b \in Buttons |-> FALSE] /\ lcd_slice_pos = -250
    /\ wanted = [lit |-> lit, pos |-> 180]
    /\ leaked = {} /\ raced = FALSE

Distance(a, b) == IF a > b THEN a - b ELSE b - a
-----------------------------------------------------------------------------
FreeBuffers == {i \in Indexes : textbuffer[i] = Free}
First(i, ids) == i \in ids /\ \A j \in ids : i <= j

(* An event holds its place in the queue's memory until it is handled.     *)
Room == MaxEvents - Len(queue) - Len(later) - (IF handling = Nothing THEN 0 ELSE 1)

PostText(ev) ==
    IF Room = 0 THEN leaked' = leaked \cup {ev.buffer} /\ UNCHANGED <<queue, later>>
                ELSE queue' = Append(queue, ev) /\ UNCHANGED <<later, leaked>>

(* lcd_draw_text called by main: the first free buffer is found, ...       *)
MainFinds ==
    /\ main = Nothing
    /\ \E i \in FreeBuffers, text \in Texts, line \in Lines :
        /\ First(i, FreeBuffers)
        /\ main' = [kind |-> "found", buffer |-> i, text |-> text, line |-> line]
    /\ UNCHANGED <<textbuffer, queue, later, handling, screenVars, wanted, leaked, raced>>

(* ... the text copied over what is there by now, ...                      *)
MainCopies ==
    /\ main.kind = "found"
    /\ textbuffer' = [textbuffer EXCEPT ![main.buffer] = main.text]
    /\ main' = [main EXCEPT !.kind = "copied"]
    /\ UNCHANGED <<queue, later, handling, screenVars, wanted, leaked, raced>>

(* ... and the event posted.                                               *)
MainPosts ==
    /\ main.kind = "copied"
    /\ PostText(TextEvent(main.buffer, main.text, main.line))
    /\ main' = Nothing
    /\ UNCHANGED <<textbuffer, handling, screenVars, wanted, raced>>

Claims(ids) == raced' = (raced \/ (main.kind = "found" /\ main.buffer \in ids))

AwsDrawsAnywhere ==   \* mutant: the last buffer is taken, free or not
    \E text \in Texts, line \in Lines :
        LET i == NumBuffers
        IN  /\ textbuffer' = [textbuffer EXCEPT ![i] = text]
            /\ PostText(TextEvent(i, text, line))
            /\ Claims({i})
            /\ UNCHANGED <<handling, main, screenVars, wanted>>

(* lcd_msg in the AWS thread.                                              *)
AwsDraws ==
    /\ \E i \in FreeBuffers, text \in Texts, line \in Lines :
        /\ First(i, FreeBuffers)
        /\ textbuffer' = [textbuffer EXCEPT ![i] = text]
        /\ PostText(TextEvent(i, text, line))
        /\ Claims({i})
    /\ UNCHANGED <<handling, main, screenVars, wanted>>

(* lcd_msg_delay_close: the text, and an empty one to be drawn over it     *)
(* after the delay, whose buffer is taken all that time.  With one buffer  *)
(* left only the text is drawn, as by AwsDraws.                            *)
AwsCloses ==
    /\ \E i, j \in FreeBuffers, text \in Texts, line \in Lines :
        /\ First(i, FreeBuffers) /\ First(j, FreeBuffers \ {i})
        /\ textbuffer' = [textbuffer EXCEPT ![i] = text, ![j] = NoText]
        /\ queue' = IF Room = 0 THEN queue ELSE Append(queue, TextEvent(i, text, line))
        /\ later' = IF Room < 2 THEN later ELSE Append(later, TextEvent(j, NoText, line))
        /\ leaked' = leaked \cup (IF Room = 0 THEN {i} ELSE {})
                             \cup (IF Room < 2 THEN {j} ELSE {})
        /\ Claims({i, j})
    /\ UNCHANGED <<handling, main, screenVars, wanted>>

Draw(ev, asked) ==
    /\ IF Room = 0 THEN wanted' = Refused /\ UNCHANGED queue
       ELSE /\ queue' = Append(queue, ev)
            /\ wanted' = IF wanted = Refused THEN Refused ELSE asked
    /\ UNCHANGED <<textbuffer, later, handling, main, screenVars, leaked, raced>>

(* lcd_show_button and lcd_close_button; lcd_show_slice.                   *)
ShowButton ==
    \E b \in Buttons, on \in BOOLEAN :
        Draw([kind |-> "button", button |-> b, on |-> on], [wanted EXCEPT !.lit[b] = on])

ShowSlice ==
    \E p \in Positions :
        Draw([kind |-> "slice", pos |-> p], [wanted EXCEPT !.pos = p])

(* hw.cpp, under hw_setting_sem, so from one thread at a time.             *)
Callers == MainFinds \/ AwsDraws \/ AwsCloses \/ ShowButton \/ ShowSlice
-----------------------------------------------------------------------------
(* The LCD thread takes an event that is due; one of call_in can be at any *)
(* time.                                                                   *)
TakeDue ==
    /\ handling = Nothing /\ queue # <<>>
    /\ handling' = Head(queue) /\ queue' = Tail(queue)
    /\ UNCHANGED <<textbuffer, later, main, screenVars, wanted, leaked, raced>>

TakeDelayed ==
    /\ handling = Nothing /\ later # <<>>
    /\ handling' = Head(later) /\ later' = Tail(later)
    /\ UNCHANGED <<textbuffer, queue, main, screenVars, wanted, leaked, raced>>

SliceDrawnPastMin(pos) ==   \* mutant: <= for <
    lcd_slice_pos' = IF Distance(lcd_slice_pos, pos) <= MIN_SLICE THEN lcd_slice_pos ELSE pos

(* lcd_show_slice_thread: a move that is too small is not drawn.           *)
SliceDrawn(pos) ==
    lcd_slice_pos' = IF Distance(lcd_slice_pos, pos) < MIN_SLICE THEN lcd_slice_pos ELSE pos

DrawGraphics ==
    /\ CASE handling.kind = "startup" ->
              lit' = [b \in Buttons |-> FALSE] /\ SliceDrawn(180)
         [] handling.kind = "button" ->
              lit' = [lit EXCEPT ![handling.button] = handling.on] /\ UNCHANGED lcd_slice_pos
         [] handling.kind = "slice" ->
              SliceDrawn(handling.pos) /\ UNCHANGED lit
         [] OTHER -> FALSE
    /\ handling' = Nothing
    /\ UNCHANGED <<textbuffer, queue, later, main, screen, wanted, leaked, raced>>

(* lcd_draw_text_thread draws what the buffer holds by now, ...            *)
DrawText ==
    /\ handling.kind = "text"
    /\ screen' = [screen EXCEPT ![handling.line] = textbuffer[handling.buffer]]
    /\ handling' = [handling EXCEPT !.kind = "drawn"]
    /\ UNCHANGED <<textbuffer, queue, later, main, lit, lcd_slice_pos, wanted, leaked, raced>>

FreeIfText ==   \* mutant: a buffer of an empty text is not given back
    /\ handling.kind = "drawn"
    /\ textbuffer' = [textbuffer EXCEPT ![handling.buffer] = IF @ = NoText THEN @ ELSE Free]
    /\ handling' = Nothing
    /\ UNCHANGED <<queue, later, main, screenVars, wanted, leaked, raced>>

(* ... and gives it back.                                                  *)
FreeBuffer ==
    /\ handling.kind = "drawn"
    /\ textbuffer' = [textbuffer EXCEPT ![handling.buffer] = Free]
    /\ handling' = Nothing
    /\ UNCHANGED <<queue, later, main, screenVars, wanted, leaked, raced>>

LcdThread == TakeDue \/ TakeDelayed \/ DrawGraphics \/ DrawText \/ FreeBuffer

MainGoesOn == MainCopies \/ MainPosts

Next == Callers \/ MainGoesOn \/ LcdThread

(* The LCD thread and main run; a delayed event becomes due, and events    *)
(* are handled in the order of their times, so none is passed for ever.    *)
Fairness ==
    /\ WF_vars(LcdThread) /\ WF_vars(MainGoesOn)
    /\ SF_vars(TakeDue) /\ SF_vars(TakeDelayed)

Spec == Init /\ [][Next]_vars /\ Fairness
-----------------------------------------------------------------------------
Holds(ev, i) == ev.kind \in {"text", "drawn"} /\ ev.buffer = i

(* Who keeps buffer i: an event by its place, main between its copy and    *)
(* its event, or nobody for ever when the queue refused the event.         *)
Owners(i) ==
    {<<"due", k>> : k \in {k \in DOMAIN queue : Holds(queue[k], i)}}
    \cup {<<"delayed", k>> : k \in {k \in DOMAIN later : Holds(later[k], i)}}
    \cup (IF Holds(handling, i) THEN {<<"handled", 0>>} ELSE {})
    \cup (IF main.kind = "copied" /\ main.buffer = i THEN {<<"main", 0>>} ELSE {})
    \cup (IF i \in leaked THEN {<<"leaked", 0>>} ELSE {})

BuffersOwned ==
    ~raced =>
        \A i \in Indexes :
            IF textbuffer[i] = Free THEN Owners(i) = {} ELSE \E o \in Owners(i) : Owners(i) = {o}

DrawnAsPassed ==
    ~raced /\ handling.kind = "text" => textbuffer[handling.buffer] = handling.passed

(* A buffer that is taken has exactly one owner, so what is drawn for a    *)
(* call is the text it passed (lcd_draw_text).  It holds as long as no     *)
(* buffer was claimed under main.                                          *)
TextsKept == BuffersOwned /\ DrawnAsPassed

(* At rest the display shows what it was last asked for, unless the queue  *)
(* was full for it: the buttons as they are, the slider to within          *)
(* MIN_SLICE, however the small moves before it added up.                  *)
ShownAsWanted ==
    queue = <<>> /\ handling = Nothing /\ wanted # Refused =>
        /\ lit = wanted.lit
        /\ Distance(lcd_slice_pos, wanted.pos) < MIN_SLICE

(* Every buffer comes back, if only after the delay of a closing text, but *)
(* for one whose event the queue refused.                                  *)
BuffersReturn ==
    \A i \in Indexes : (textbuffer[i] # Free) ~> (textbuffer[i] = Free \/ i \in leaked)
=============================================================================
