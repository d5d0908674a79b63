------------------------------ MODULE CommitLog ------------------------------
(***************************************************************************)
(* What the files of one Requirement promise to the processes that share   *)
(* them: a log of Events that only grows, one Event at a time, each caused *)
(* by the last one before it, and loads that answer with one moment of the *)
(* log, never with a mixture of two.                                       *)
(*                                                                         *)
(* An Event is [id, cause, registers, snapshot]: its own id and that of    *)
(* the Event before it (NoID for the first), whether it changes the Output *)
(* Registry, and the configuration snapshot its content was evaluated by.  *)
(***************************************************************************)
EXTENDS Integers, Sequences

CONSTANTS Procs, Events

NoID == 0

LastID(history) == IF history = << >> THEN NoID ELSE history[Len(history)].id

\* The Output Registry a history ends in, by the Events that changed it.
Registry(history) == SelectSeq(history, LAMBDA event : event.registers)

\* What a load makes of a State and an Output Registry.
View(history) == [last |-> LastID(history), registry |-> Registry(history)]
NoView == [last |-> NoID, registry |-> << >>]

Idle == -1   \* no command runs

VARIABLES
    log,       \* the committed Events
    started,   \* for each process the length of the log when its command began
    answer     \* what its load answered

vars == <<log, started, answer>>

Init ==
    /\ log = << >>
    /\ started = [p \in Procs |-> Idle]
    /\ answer = [p \in Procs |-> NoView]

End(p) == started' = [started EXCEPT ![p] = Idle]

Begin(p) ==
    /\ started[p] = Idle
    /\ started' = [started EXCEPT ![p] = Len(log)]
    /\ answer' = [answer EXCEPT ![p] = NoView]
    /\ UNCHANGED log

\* The last step of a command that changes something: it was evaluated on the
\* log as it still is.
Commit(p, event) ==
    /\ started[p] # Idle
    /\ event.cause = LastID(log)
    /\ \A i \in DOMAIN log : log[i].id # event.id
    /\ log' = Append(log, event)
    /\ End(p)
    /\ UNCHANGED answer

\* The answer is no older than its command, and no mixture.
Answer(p) ==
    /\ started[p] # Idle
    /\ \E n \in started[p]..Len(log) :
          answer' = [answer EXCEPT ![p] = View(SubSeq(log, 1, n))]
    /\ End(p) \/ UNCHANGED started
    /\ UNCHANGED log

\* A command that is refused, fails or is killed has no effect.
Abandon(p) == End(p) /\ UNCHANGED <<answer, log>>

Next == \E p \in Procs :
    Begin(p) \/ Answer(p) \/ Abandon(p) \/ \E event \in Events : Commit(p, event)

Spec == Init /\ [][Next]_vars
=============================================================================
