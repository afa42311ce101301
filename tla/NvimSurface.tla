----------------------------- MODULE NvimSurface -----------------------------
(* NvimSurface (src/engine/terminal/src/nvim_surface.cpp): one thread talks  *)
(* to an editor, a child process, over two pipes.  The editor answers,       *)
(* redraws and exits when it likes; a message is two parts, and a read finds *)
(* whatever has arrived.  The codec is Msgpack.  The host                    *)
(* ignores SIGPIPE: a write to an editor that is gone fails.                 *)
EXTENDS Integers, Sequences, SequencesExt, FiniteSetsExt, TLC

-----------------------------------------------------------------------------
(* The grid and the redraw events of the editor.  Rows and columns are       *)
(* counted from 0, as the events do.                                         *)
CONSTANTS
  Events,       \* redraw events
  GridWidth, GridHeight,   \* the size the surface starts with
  MaxEvents     \* bound

ASSUME NvimGridAssumption == {GridWidth, GridHeight, MaxEvents} \subseteq Nat

(* An editor scrolls up to a row that is there.  Scroll makes an unsigned    *)
(* number of the end (line 732): with an end before the first row its loops  *)
(* would leave the rows, which has no meaning.                               *)
ASSUME NvimScrollAssumption ==
  \A e \in Events : e.name = "grid_scroll" /\ e.rows # 0 => e.bottom >= 0

VARIABLES
  grid,         \* [width, height, cursor, rows]
  picture,      \* what the events say is on the screen, by row and column
  drawn         \* events so far

gridVars == <<grid, picture, drawn>>

Blank == [text |-> " ", highlightId |-> 0]

EmptyRows(width, height) == [y \in 0..(height - 1) |-> [x \in 0..(width - 1) |-> Blank]]

ResizeGrid(width, height) ==
  grid' = [grid EXCEPT !.width = width, !.height = height, !.rows = EmptyRows(width, height)]

ClearGrid == grid' = [grid EXCEPT !.rows = EmptyRows(grid.width, grid.height)]

(* A run says its text, its highlight, 0 if it says none, and how often.     *)
Cell(run) == [text |-> IF run.text = "" THEN " " ELSE run.text, highlightId |-> run.highlight]

Times(run) == IF run.repeat > 1 THEN run.repeat ELSE 1

PutRun(put, run) ==
  [rows |-> [x \in DOMAIN put.rows |-> IF x \in put.x..(put.x + Times(run) - 1) THEN Cell(run) ELSE put.rows[x]],
   x |-> put.x + Times(run)]

ApplyLine(e) ==
  IF e.row < 0 \/ e.column < 0 \/ e.row >= grid.height THEN UNCHANGED grid
  ELSE grid' = [grid EXCEPT !.rows[e.row] =
                  FoldLeft(LAMBDA put, run : PutRun(put, run), [rows |-> @, x |-> e.column], e.cells).rows]

(* The loops of Scroll go through the rows in the order in which each is     *)
(* read before it is written.                                                *)
BlankRow == [x \in 0..(grid.width - 1) |-> Blank]

UpwardOrder(top, bottom) == [i \in 1..(bottom - top) |-> top + i - 1]

DownwardOrder(top, bottom) == [i \in 1..(bottom - top) |-> bottom - i]

MoveRow(rows, y, by, top, bottom) ==
  [rows EXCEPT ![y] = IF y + by \in top..(bottom - 1) THEN rows[y + by] ELSE BlankRow]

Scroll(e) ==
  LET top == IF e.top > 0 THEN e.top ELSE 0
      bottom == IF e.bottom < grid.height THEN e.bottom ELSE grid.height
      order == IF e.rows > 0 THEN UpwardOrder(top, bottom) ELSE DownwardOrder(top, bottom)
  IN  IF e.columns # 0 \/ e.left # 0 \/ e.right # grid.width THEN ClearGrid
      ELSE IF top >= bottom \/ e.rows = 0 THEN UNCHANGED grid
      ELSE grid' = [grid EXCEPT !.rows = FoldLeft(LAMBDA rows, y : MoveRow(rows, y, e.rows, top, bottom), @, order)]

SetCursor(e) == grid' = [grid EXCEPT !.cursor = [row |-> e.row, column |-> e.column]]

(* What is shown: the text of each row up to its last cell that is not blank. *)
RowText(row) ==
  LET texts == [x \in 1..grid.width |-> row[x - 1].text]
      shown == {x \in DOMAIN texts : texts[x] # " "}
  IN  SubSeq(texts, 1, IF shown = {} THEN 0 ELSE Max(shown))

Snapshot == [y \in 1..grid.height |-> RowText(grid.rows[y - 1])]

-----------------------------------------------------------------------------
(* The picture, event by event, said without loops over rows.                *)
RunAt(e, x) ==
  LET from(i) == e.column + FoldLeft(LAMBDA sum, run : sum + Times(run), 0, SubSeq(e.cells, 1, i - 1))
  IN  {i \in DOMAIN e.cells : x \in from(i)..(from(i) + Times(e.cells[i]) - 1)}

Lined(e) ==
  [y \in DOMAIN picture |-> [x \in DOMAIN picture[y] |->
     IF y = e.row /\ e.column >= 0 /\ RunAt(e, x) # {} THEN Cell(e.cells[CHOOSE i \in RunAt(e, x) : TRUE]) ELSE picture[y][x]]]

Moved(e) ==
  LET region == {y \in DOMAIN picture : e.top <= y /\ y < e.bottom}
  IN  [y \in DOMAIN picture |-> IF y \notin region THEN picture[y]
                               ELSE IF y + e.rows \in region THEN picture[y + e.rows] ELSE BlankRow]

(* DispatchRedraw: an event with too few arguments changes nothing.          *)
DispatchRedraw ==
  \E e \in Events :
    /\ drawn < MaxEvents /\ drawn' = drawn + 1
    /\ \/ e.name = "grid_resize" /\ ResizeGrid(e.width, e.height) /\ picture' = EmptyRows(e.width, e.height)
       \/ e.name = "grid_clear" /\ ClearGrid /\ picture' = EmptyRows(grid.width, grid.height)
       \/ e.name = "grid_line" /\ ApplyLine(e) /\ picture' = Lined(e)
       \/ e.name = "grid_cursor_goto" /\ SetCursor(e) /\ UNCHANGED picture
       \/ /\ e.name = "grid_scroll" /\ Scroll(e)
          /\ picture' = IF e.columns = 0 /\ e.left = 0 /\ e.right = grid.width THEN Moved(e)
                        ELSE EmptyRows(grid.width, grid.height)
       \/ e.name = "ignored" /\ UNCHANGED <<grid, picture>>

GridInit ==
  /\ grid = [width |-> GridWidth, height |-> GridHeight, cursor |-> [row |-> 0, column |-> 0],
             rows |-> EmptyRows(GridWidth, GridHeight)]
  /\ picture = EmptyRows(GridWidth, GridHeight)
  /\ drawn = 0

(* The rows hold what the events put on the screen: a scroll, which moves    *)
(* the rows in place, reads no row it has written, a line neither spills     *)
(* into the next row nor past the width, and the text shown of each row is   *)
(* cut after its last character only.  (NvimGrid)                            *)
PictureShown ==
  /\ grid.rows = picture
  /\ \A y \in DOMAIN picture : \A x \in DOMAIN picture[y] :
       IF x < Len(Snapshot[y + 1]) THEN Snapshot[y + 1][x + 1] = picture[y][x].text ELSE picture[y][x].text = " "

-----------------------------------------------------------------------------
(* The calls.                                                                *)
CONSTANTS MaxSurfaceCalls, MaxRedraws   \* bounds: calls, redraws of one editor

VARIABLES
  editor,       \* pid_: "none", "up", or "exited" and not waited for
  asked,        \* requests the editor has not answered
  pipe,         \* stdoutFd_: parts of messages
  readBuffer,
  responses,    \* responses_: whether the answer to a request is an error
  nextMsgId,
  call,         \* the call in progress: its stage, the request it waits for, all its requests
  returned,     \* what the last call returned, and its requests
  shown,        \* redraws handled, of those the editor sent
  redraws,
  good,         \* requests of the call that were answered without an error
  garbled,      \* a part was taken for one of another message
  surfaceCalls

surfaceVars == <<editor, asked, pipe, readBuffer, responses, nextMsgId, call, returned, shown, redraws, good, garbled, surfaceCalls>>

idle == [op |-> "none", stage |-> "none", at |-> "idle", id |-> 0, ids |-> {}]

SurfaceInit ==
  /\ editor = "none" /\ asked = <<>> /\ pipe = <<>> /\ readBuffer = <<>> /\ responses = <<>>
  /\ nextMsgId = 1 /\ call = idle /\ returned = [ok |-> FALSE, ids |-> {}]
  /\ shown = 0 /\ redraws = 0 /\ good = {} /\ garbled = FALSE /\ surfaceCalls = 0

-----------------------------------------------------------------------------
(* The editor (external).                                                    *)
Message(kind, id, error) ==
  LET half(part) == [kind |-> kind, id |-> id, error |-> error, part |-> part] IN <<half(1), half(2)>>

AnswerRequest ==
  \E error \in BOOLEAN :
    /\ editor = "up" /\ asked # <<>>
    /\ pipe' = pipe \o Message("answer", asked[1], error)
    /\ asked' = Tail(asked)
    /\ good' = good \cup (IF error THEN {} ELSE {asked[1]} \cap call.ids)
    /\ UNCHANGED <<editor, readBuffer, responses, nextMsgId, call, returned, shown, redraws, garbled, surfaceCalls>>

SendRedraw ==
  /\ editor = "up" /\ redraws < MaxRedraws
  /\ redraws' = redraws + 1
  /\ pipe' = pipe \o Message("redraw", redraws + 1, FALSE)
  /\ UNCHANGED <<editor, asked, readBuffer, responses, nextMsgId, call, returned, shown, good, garbled, surfaceCalls>>

(* It may stop in the middle of a message.                                   *)
ExitEditor ==
  /\ editor = "up" /\ editor' = "exited" /\ asked' = <<>>
  /\ pipe' \in {pipe, SubSeq(pipe, 1, Len(pipe) - 1)}
  /\ UNCHANGED <<readBuffer, responses, nextMsgId, call, returned, shown, redraws, good, garbled, surfaceCalls>>

EditorMoves == AnswerRequest \/ SendRedraw \/ ExitEditor

-----------------------------------------------------------------------------
(* The steps of a call; Resize goes the way of SendInput.  Each stage sends  *)
(* a request, waits for its answer or only pumps for a while, and is done or *)
(* has failed.  The stages of Start:                                        *)
(* quit (Shutdown), boot, attach, redraw, settle, and undo (Shutdown again). *)
Stage(stage, at) == call' = [call EXCEPT !.stage = stage, !.at = at]

At(at) == Stage(call.stage, at)

Return(ok) == call' = idle /\ returned' = [ok |-> ok, ids |-> call.ids]

BeginCall ==
  \E op \in {"Start", "Shutdown", "Command", "SendInput"} :
    /\ call = idle /\ surfaceCalls < MaxSurfaceCalls
    /\ surfaceCalls' = surfaceCalls + 1
    /\ call' = [op |-> op, stage |-> IF op \in {"Start", "Shutdown"} THEN "quit" ELSE "main", at |-> "send", id |-> 0, ids |-> {}]
    /\ returned' = [ok |-> FALSE, ids |-> {}] /\ good' = {}
    /\ UNCHANGED <<editor, asked, pipe, readBuffer, responses, nextMsgId, shown, redraws, garbled>>

(* SendRequest (Request) uses a number up even when the write fails.         *)
(* IsRunning, which Shutdown asks first, is true of a child that exited and  *)
(* was not waited for.                                                       *)
Quitting == call.stage \in {"quit", "undo"}

SendRequest ==
  /\ call.at = "send"
  /\ IF Quitting /\ editor = "none" THEN At("done") /\ UNCHANGED <<asked, nextMsgId>>
     ELSE /\ nextMsgId' = nextMsgId + 1
          /\ IF editor = "up"
             THEN /\ asked' = Append(asked, nextMsgId)
                  /\ call' = [call EXCEPT !.at = IF Quitting THEN "pump" ELSE "wait", !.id = nextMsgId,
                                          !.ids = IF Quitting THEN @ ELSE @ \cup {nextMsgId}]
             ELSE At("failed") /\ UNCHANGED asked
  /\ UNCHANGED <<editor, pipe, readBuffer, responses, returned, shown, redraws, good, garbled, surfaceCalls>>

(* UnpackStream takes the messages that are whole; the last part may not     *)
(* have arrived.                                                             *)
Whole(parts) == Len(parts) - (Len(parts) % 2)

MessagesIn(parts) == [i \in 1..(Whole(parts) \div 2) |-> parts[2 * i]]

InTurn(parts) == \A i \in DOMAIN parts : parts[i].part = 2 - (i % 2)

Replies(messages) == {i \in DOMAIN messages : messages[i].kind = "answer"}

OwnAnswer(known) == IF call.id \in DOMAIN known THEN call.id ELSE 0

ReadAndHandle ==
  \E n \in {Len(pipe) - 1, Len(pipe)} \cap Nat :
    /\ call.at \in {"wait", "pump"}
    /\ pipe' = SubSeq(pipe, n + 1, Len(pipe))
    /\ LET parts == readBuffer \o SubSeq(pipe, 1, n)
           messages == MessagesIn(parts)
           arrived == Replies(messages)
           ids == {messages[i].id : i \in arrived}
           known == [id \in ids \cup DOMAIN responses |->
                       IF id \in ids THEN \E i \in arrived : messages[i].id = id /\ messages[i].error ELSE responses[id]]
           mine == IF call.at = "wait" THEN OwnAnswer(known) ELSE 0
       IN  /\ readBuffer' = SubSeq(parts, Whole(parts) + 1, Len(parts))
           /\ garbled' = (garbled \/ ~InTurn(parts))
           /\ shown' = shown + Cardinality(DOMAIN messages \ arrived)
           /\ responses' = [id \in DOMAIN known \ {mine} |-> known[id]]
           /\ IF mine = 0 THEN UNCHANGED call ELSE At(IF known[mine] THEN "failed" ELSE "done")
    /\ UNCHANGED <<editor, asked, nextMsgId, returned, redraws, good, surfaceCalls>>

(* The deadline of a wait or a pump; an error of select or read.             *)
DeadlinePasses ==
  /\ call.at \in {"wait", "pump"} /\ At(IF call.at = "wait" THEN "failed" ELSE "done")
  /\ UNCHANGED <<editor, asked, pipe, readBuffer, responses, nextMsgId, returned, shown, redraws, good, garbled, surfaceCalls>>

ReadFails ==
  /\ call.at \in {"wait", "pump"} /\ At("failed")
  /\ UNCHANGED <<editor, asked, pipe, readBuffer, responses, nextMsgId, returned, shown, redraws, good, garbled, surfaceCalls>>

\* Mutant: what was read and not handled stays for the next editor.
ForgetResponses == responses' = <<>> /\ UNCHANGED readBuffer

Forget == responses' = <<>> /\ readBuffer' = <<>>

Terminate ==
  /\ Quitting /\ call.at \in {"done", "failed"}
  /\ editor' = "none" /\ asked' = <<>> /\ pipe' = <<>>
  /\ Forget
  /\ IF call.op = "Start" /\ call.stage = "quit" THEN Stage("boot", "boot") /\ UNCHANGED returned
     ELSE Return(call.op = "Shutdown")
  /\ UNCHANGED <<nextMsgId, shown, redraws, good, garbled, surfaceCalls>>

(* ChildProcess::Start, which may fail, after the grid was sized anew.       *)
StartProcess ==
  /\ call.at = "boot"
  /\ \/ editor' = "up" /\ Stage("attach", "send") /\ UNCHANGED returned
     \/ Return(FALSE) /\ UNCHANGED editor
  /\ shown' = 0 /\ redraws' = 0
  /\ UNCHANGED <<asked, pipe, readBuffer, responses, nextMsgId, good, garbled, surfaceCalls>>

(* What a call does when a stage is done or has failed.                      *)
Proceed ==
  /\ ~Quitting /\ call.at \in {"done", "failed"}
  /\ LET ok == call.at = "done"
     IN  \/ call.stage = "attach" /\ ok /\ Stage("redraw", "send") /\ UNCHANGED returned
         \/ call.stage = "redraw" /\ ok /\ Stage("settle", "pump") /\ UNCHANGED returned
         \/ call.stage \in {"attach", "redraw"} /\ ~ok /\ Stage("undo", "send") /\ UNCHANGED returned
         \/ call.stage = "settle" /\ Return(TRUE)
         \/ call.stage = "main" /\ ok /\ call.op # "Command" /\ Stage("drain", "pump") /\ UNCHANGED returned
         \/ call.stage = "main" /\ (~ok \/ call.op = "Command") /\ Return(ok)
         \/ call.stage = "drain" /\ Return(ok)
  /\ UNCHANGED <<editor, asked, pipe, readBuffer, responses, nextMsgId, shown, redraws, good, garbled, surfaceCalls>>

SurfaceNext ==
  \/ EditorMoves \/ BeginCall \/ SendRequest \/ ReadAndHandle \/ DeadlinePasses \/ ReadFails
  \/ Terminate \/ StartProcess \/ Proceed

-----------------------------------------------------------------------------
(* A call that returned true had every request of its own answered without   *)
(* an error, whatever answers to older requests came late; no part of a      *)
(* message is taken for one of another, though an editor may be stopped in   *)
(* the middle of one; of the redraws of the editor that runs now, and of no  *)
(* other, those read whole were handled; and nothing is left of an editor    *)
(* that was ended.  (WaitForResponse, ReadAndHandle and Shutdown)            *)
SurfaceSound ==
  /\ returned.ok => returned.ids \subseteq good
  /\ ~garbled
  /\ shown <= redraws
  /\ call = idle /\ editor = "none" => readBuffer = <<>> /\ responses = <<>> /\ pipe = <<>> /\ asked = <<>>
=============================================================================
