--------------------------- MODULE LogCleanupConsole ---------------------------
(***************************************************************************)
(* The log maintenance page of the web console beside the cleanup it       *)
(* starts: the answer to its first look, the answer to the start it        *)
(* confirms, and the answers to its one-second polls all set the one task  *)
(* it shows.  The console is one of the operators of LogCleanup.           *)
(*                                                                         *)
(* React renders after the continuation that set the state: the polls of   *)
(* the effect installed by the last render go on in between, and the new   *)
(* render's cleanup cancels the ones still waiting.                        *)
(***************************************************************************)
EXTENDS LogCleanup

CONSTANTS
  Console,   \* the operator at the page
  Requests,  \* bound: polls under way at once
  MaxLost    \* bound: answers that never arrive

ASSUME ConsoleAssumption == Console \in Operators /\ MaxLost \in Nat

VARIABLES
  screen,  \* logCleanupTask
  effect,  \* the task and status whose polling effect is installed
  dialog,  \* showConfirmDialog
  first,   \* [pc, snap]: the fetch of the current task when the page opens
  reply,   \* [pc, snap]: the request to start a cleanup (isStartingLogCleanup)
  polls,   \* [Requests -> [pc, snap, waiters]]: GETs of the shown task
  lost,    \* history, bounded by MaxLost
  polled   \* history: the task shown is the answer of a poll

page == <<screen, effect, dialog, first, reply, polls, lost, polled>>
consoleVars == <<vars, page>>

Shown == [id: Tasks \cup {0}, status: {"absent"} \cup Active \cup Terminal, processed: Count]
Nothing == [id |-> 0, status |-> "absent", processed |-> 0]
NoEffect == [id |-> 0, status |-> "absent"]
NoRequest == [pc |-> "none", snap |-> Nothing]
NoPoll == [pc |-> "none", snap |-> Nothing, waiters |-> 0]

ConsoleInit ==
  /\ Init
  /\ screen = Nothing /\ effect = NoEffect /\ dialog = FALSE
  /\ first = [NoRequest EXCEPT !.pc = "sent"]
  /\ reply = NoRequest
  /\ polls = [q \in Requests |-> NoPoll]
  /\ lost = 0 /\ polled = FALSE

Snapshot(row, t) == [id |-> t, status |-> row.status, processed |-> row.state.processed]
Current == IF ActiveTasks = {} THEN Nothing
           ELSE Snapshot(task[Max(ActiveTasks)], Max(ActiveTasks))
ShowsActive(s) == s.status \in Active

(* An answer without a task leaves the page as it is.                       *)
Show(snap, isPoll) ==
  IF snap.id = 0 THEN UNCHANGED <<screen, polled>> ELSE screen' = snap /\ polled' = isPoll

FirstServed ==
  /\ first.pc = "sent"
  /\ first' = [pc |-> "answered", snap |-> Current]
  /\ UNCHANGED <<vars, screen, effect, dialog, reply, polls, lost, polled>>

FirstShown ==
  /\ first.pc = "answered"
  /\ first' = [NoRequest EXCEPT !.pc = "done"]
  /\ Show(first.snap, FALSE)
  /\ UNCHANGED <<vars, effect, dialog, reply, polls, lost>>

(* The button is disabled while a cleanup is shown or being started, the    *)
(* dialog's own button only while one is being started.                     *)
OpenDialog ==
  /\ reply.pc = "none" /\ ~ShowsActive(screen) /\ ~dialog
  /\ dialog' = TRUE
  /\ UNCHANGED <<vars, screen, effect, first, reply, polls, lost, polled>>

Confirm ==
  /\ dialog /\ reply.pc = "none"
  /\ reply' = [NoRequest EXCEPT !.pc = "sent"]
  /\ UNCHANGED <<vars, screen, effect, dialog, first, polls, lost, polled>>

StartServed ==
  /\ reply.pc = "sent"
  /\ Start(Console) \/ Create(Console)
  /\ reply' = LET o == operator'[Console] IN
              IF o.pc = "creating" THEN reply
              ELSE [pc |-> "answered",
                    snap |-> IF o.got = 0 THEN Nothing ELSE Snapshot(task'[o.got], o.got)]
  /\ UNCHANGED <<screen, effect, dialog, first, polls, lost, polled>>

StartShown ==
  /\ reply.pc = "answered"
  /\ reply' = NoRequest
  /\ Show(reply.snap, FALSE)
  /\ dialog' = (reply.snap.id = 0)
  /\ UNCHANGED <<vars, effect, first, polls, lost>>

(* The effect depends on the task and its status; a new one polls anew.     *)
Key == IF ShowsActive(screen) THEN [id |-> screen.id, status |-> screen.status] ELSE NoEffect
Render ==
  /\ effect # Key
  /\ effect' = Key
  /\ polls' = [q \in Requests |-> IF Key.id = effect.id THEN [polls[q] EXCEPT !.waiters = 0]
                                  ELSE NoPoll]
  /\ UNCHANGED <<vars, screen, dialog, first, reply, lost, polled>>

(* Regression: requests are not joined.                                     *)
JoinsNothing(q) == polls[q].pc = "none"

(* api.get joins the request for the same URL that is under way.            *)
UnderWay == {q \in Requests : polls[q].pc # "none"}
Joins(q) == IF UnderWay = {} THEN q = Min(Requests) ELSE q \in UnderWay
Asked(q) == [polls[q] EXCEPT !.waiters = 1, !.pc = IF @ = "none" THEN "sent" ELSE @]

(* Regression: polling stops when the cleanup is claimed.                   *)
TickWhilePending ==
  /\ effect.status = "pending"
  /\ \E q \in Requests :
       /\ Joins(q)
       /\ polls[q].waiters = 0
       /\ polls' = [polls EXCEPT ![q] = Asked(q)]
  /\ UNCHANGED <<vars, screen, effect, dialog, first, reply, lost, polled>>

Tick ==
  /\ effect # NoEffect
  /\ \E q \in Requests :
       /\ Joins(q)
       /\ polls[q].waiters = 0  \* bound: one tick waits for an answer
       /\ polls' = [polls EXCEPT ![q] = Asked(q)]
  /\ UNCHANGED <<vars, screen, effect, dialog, first, reply, lost, polled>>

PollServed(q) ==
  /\ polls[q].pc = "sent"
  /\ polls' = [polls EXCEPT ![q].pc = "answered",
                            ![q].snap = Snapshot(task[effect.id], effect.id)]
  /\ UNCHANGED <<vars, screen, effect, dialog, first, reply, lost, polled>>

PollShown(q) ==
  /\ polls[q].pc = "answered"
  /\ polls' = [polls EXCEPT ![q] = NoPoll]
  /\ IF polls[q].waiters > 0 THEN Show(polls[q].snap, TRUE)
     ELSE UNCHANGED <<screen, polled>>
  /\ UNCHANGED <<vars, effect, dialog, first, reply, lost>>

(* An answer is lost; what was asked may have been done all the same.       *)
Lose ==
  /\ lost < MaxLost /\ lost' = lost + 1
  /\ \/ /\ first.pc \in {"sent", "answered"}
        /\ first' = [NoRequest EXCEPT !.pc = "done"]
        /\ UNCHANGED <<reply, polls>>
     \/ /\ reply.pc = "answered" \/ (reply.pc = "sent" /\ operator[Console].pc = "idle")
        /\ reply' = NoRequest
        /\ UNCHANGED <<first, polls>>
     \/ \E q \in Requests :
          /\ polls[q].pc # "none"
          /\ polls' = [polls EXCEPT ![q] = NoPoll]
          /\ UNCHANGED <<first, reply>>
  /\ UNCHANGED <<vars, screen, effect, dialog, polled>>

Browse ==
  \/ FirstServed \/ FirstShown \/ StartServed \/ StartShown \/ Render \/ Tick
  \/ \E q \in Requests : PollServed(q) \/ PollShown(q)

(* What everyone but the console does.                                      *)
Elsewhere ==
  /\ Next
  /\ operator'[Console] = operator[Console]
  /\ UNCHANGED page

ConsoleNext == Browse \/ OpenDialog \/ Confirm \/ Lose \/ Elsewhere

ConsoleSpec == ConsoleInit /\ [][ConsoleNext]_consoleVars

(* Requests are answered or fail, React renders, the interval ticks.        *)
ConsoleFairness ==
  /\ RunnerFairness
  /\ WF_consoleVars(Render) /\ WF_consoleVars(Tick)
  /\ \A q \in Requests : WF_consoleVars(PollServed(q)) /\ WF_consoleVars(PollShown(q))

-----------------------------------------------------------------------------
(* Properties                                                               *)

(* Polls never take the page back: after one answer a later one of the same *)
(* task does not show an ended task running again, and has no lower count   *)
(* unless a runner reclaimed the task from its own goroutine (see           *)
(* ProgressIsKept).  The two other answers, of the first look and of the    *)
(* start, may take it back (nothing orders them).                           *)
PollsMoveForward ==
  [][(polled /\ polled' /\ screen'.id = screen.id)
     => /\ screen.id \notin doubled => screen'.processed >= screen.processed
        /\ screen.status \in Terminal => screen' = screen]_consoleVars

(* The page does not show a cleanup that is over as running for ever,       *)
(* whatever answers were lost and however often its polling effect was      *)
(* replaced.                                                                *)
ShownCleanupEnds == SavesAreSeen => (ShowsActive(screen) ~> ~ShowsActive(screen))
=============================================================================
