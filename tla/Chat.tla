-------------------------------- MODULE Chat --------------------------------
(***************************************************************************)
(* The chat windows of HSDISP.C.  Keys typed during a transfer reach       *)
(* display_chatout from ComIdle; it opens the chat windows (prepare_chat), *)
(* appends the key to the outbound chat text WS.chatout.text through       *)
(* add_chatout, which also echoes it in the local window, and expands CR,  *)
(* BS and word wrap into several characters.  The protocol engine sends    *)
(* the text as CHAT packets; incoming CHAT packets reach display_chatin,   *)
(* which also opens the windows and closes them on ESC.  The chat-out      *)
(* window's cursor column is modelled because display_chatout reads it     *)
(* back (wherex) to keep its word-wrap column count.                       *)
(***************************************************************************)
EXTENDS Integers, Sequences

CONSTANTS CHAT_MAX_LENGTH, \* size of WS.chatout.text, NUL included
          CHAT_WIDTH,      \* word wrap on spaces past column CHAT_WIDTH-4
          WinWidth,        \* columns of the chat-out text window
          Keys,            \* keys typed: "a", "SP", "CR", "BS", "BEL", "ESC"
          Registered,      \* local_userid(): only registered users start chat
          MaxKeys          \* bound on the keys typed

VARIABLES text,        \* WS.chatout.text, waiting to be sent
          chat_active, \* WS.chat_active
          x2,          \* chatout_window.x2 (chatin_window.x2 moves with it)
          curx,        \* column of the chat-out window's cursor
          chatcol,     \* display_chatout's static column count
          final_ready, \* PRIVATE.remote_ready.final_ready
          typed        \* keys typed so far

vars == <<text, chat_active, x2, curx, chatcol, final_ready, typed>>

Chars == Keys \cup {"LF"}

TypeOK ==
    /\ text \in Seq(Chars) /\ chat_active \in BOOLEAN /\ x2 \in 0..80
    /\ curx \in 1..WinWidth /\ chatcol \in Int /\ final_ready \in BOOLEAN
    /\ typed \in 0..MaxKeys

-----------------------------------------------------------------------------
\* conio putch in a window WinWidth columns wide: CR returns, LF and BEL
\* leave the column, BS backs up within the line, anything else advances
\* and wraps after the last column.
Putch(x, c) ==
    CASE c = "CR"  -> 1
      [] c \in {"LF", "BEL"} -> x
      [] c = "BS"  -> IF x > 1 THEN x - 1 ELSE 1
      [] OTHER     -> IF x = WinWidth THEN 1 ELSE x + 1

\* add_chatout: the scan counts i from 1 up one per character and returns
\* once ++i reaches CHAT_MAX_LENGTH, i.e. the key is dropped (and not
\* echoed) when the text holds CHAT_MAX_LENGTH-1 characters already.
AddChatout(s, c) ==
    IF Len(s.text) + 1 >= CHAT_MAX_LENGTH THEN s
    ELSE [s EXCEPT !.text = Append(@, c), !.curx = Putch(@, c)]

AddAll(s, cs) ==
    LET RECURSIVE F(_, _)
        F(t, i) == IF i > Len(cs) THEN t ELSE F(AddChatout(t, cs[i]), i + 1)
    IN F(s, 1)

\* prepare_chat: if not yet active, frame both windows, narrow them by one
\* column and set chat_active.
PrepareX2(act, w) == IF act THEN w ELSE w - 1

\* The chat-out cursor after prepare_chat: framing resets it and TX_CHATINS
\* is printed, which leaves it at a column the model does not know.
StartCols == IF chat_active THEN {curx} ELSE 1..WinWidth

\* Mutant (see PROJECT.json).
CloseX2Unguarded(act, w) == w + 1

\* close_chat: only when active, widen the windows back.
CloseX2(act, w) == IF act THEN w + 1 ELSE w

\* The rest of display_chatout after add_chatout(c): the wherex() test and
\* the switch on c, with its further add_chatout calls.
AfterKey(s, c) ==
    LET t == IF s.curx = 1 THEN [s EXCEPT !.chatcol = 0] ELSE s
    IN CASE c = "CR"  -> [AddChatout(t, "LF") EXCEPT !.chatcol = 0]
         [] c = "BEL" -> [t EXCEPT !.chatcol = @ - 1]
         [] c = "BS"  -> LET u == AddAll(t, <<"SP", "BS">>)
                             d == u.chatcol - 1
                         IN [u EXCEPT !.chatcol = IF d /= 0 THEN d - 1 ELSE d]
         [] c = "ESC" -> [t EXCEPT !.chatcol = 0]
         [] c = "SP" /\ t.chatcol > CHAT_WIDTH - 4
                      -> [AddAll(t, <<"CR", "LF">>) EXCEPT !.chatcol = 0]
         [] OTHER     -> t

\* display_chatout(c), called from ComIdle for a key that is not a
\* command: only once the remote is final_ready, and only a registered
\* user may open the chat; ESC closes it again.
DisplayChatout(c) ==
    /\ typed < MaxKeys /\ final_ready /\ (chat_active \/ Registered)
    /\ \E x0 \in StartCols :
        LET s == [text |-> text, curx |-> x0, chatcol |-> chatcol + 1]
            r == AfterKey(AddChatout(s, c), c)
        IN  text' = r.text /\ chatcol' = r.chatcol /\ curx' = r.curx
    /\ chat_active' = (c /= "ESC")
    /\ x2' = IF c = "ESC" THEN CloseX2(TRUE, PrepareX2(chat_active, x2))
                          ELSE PrepareX2(chat_active, x2)
    /\ typed' = typed + 1
    /\ UNCHANGED final_ready

\* display_chatin(s) for the text of an incoming CHAT packet: it opens the
\* windows whether or not we are registered, prints the text and calls
\* close_chat at every ESC in it.  Payloads are told apart only by the
\* number of ESCs they hold.
DisplayChatin(nesc) ==
    LET RECURSIVE Closes(_, _, _)
        Closes(act, w, n) == IF n = 0 THEN <<act, w>>
                             ELSE Closes(FALSE, CloseX2(act, w), n - 1)
        r == Closes(TRUE, PrepareX2(chat_active, x2), nesc)
    IN /\ \E x0 \in StartCols : curx' = x0
       /\ chat_active' = r[1] /\ x2' = r[2]
       /\ UNCHANGED <<text, chatcol, final_ready, typed>>

-----------------------------------------------------------------------------
(* The protocol engine (HDK library), from the specification.              *)

\* The remote's READY arrives: final_ready is set.
RemoteReady ==
    /\ ~final_ready /\ final_ready' = TRUE
    /\ UNCHANGED <<text, chat_active, x2, curx, chatcol, typed>>

\* The engine sends the pending chat text as a CHAT packet and empties it.
SendChat ==
    /\ text /= <<>> /\ text' = <<>>
    /\ UNCHANGED <<chat_active, x2, curx, chatcol, final_ready, typed>>

\* The static and global data at program start.
Init ==
    /\ text = <<>> /\ chat_active = FALSE /\ x2 = 80 /\ curx = 1
    /\ chatcol = 0 /\ final_ready = FALSE /\ typed = 0

Next ==
    \/ \E c \in Keys : DisplayChatout(c)
    \/ \E n \in 0..2 : DisplayChatin(n)
    \/ RemoteReady \/ SendChat

Spec == Init /\ [][Next]_vars

-----------------------------------------------------------------------------
(* Properties.                                                             *)

\* prepare_chat and close_chat, called from both display_chatout and
\* display_chatin, narrow and widen the chat windows exactly once per
\* opening: the windows are one column narrower exactly while chat is on.
WindowsMatchChat == x2 = IF chat_active THEN 79 ELSE 80
====
