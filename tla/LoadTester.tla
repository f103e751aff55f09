----------------------------- MODULE LoadTester ------------------------------
(***************************************************************************)
(* scripts/hold_open_load.py: the load tester kept with the server.  Each   *)
(* slot is an asyncio task that opens a connection, sends requests on it    *)
(* until the test time is over or the connection fails, and reconnects.     *)
(* The slots share one Stats object.                                        *)
(*                                                                          *)
(* asyncio runs a task without interruption from one await to the next, so  *)
(* a step of a slot is what it does between two awaits.  The lock in Stats  *)
(* is held across no await: it is never contended and never suspends.       *)
(***************************************************************************)
EXTENDS Integers, FiniteSets

CONSTANTS
  Slots,        \* the tasks started by main: --connections
  MaxRequests,  \* bound: requests sent before the test time is over
  MaxConnects   \* bound: connects begun before the test time is over

ASSUME LoadAssumption ==
  /\ IsFiniteSet(Slots)
  /\ MaxRequests \in Nat /\ MaxConnects \in Nat

VARIABLES
  single_shot_connection,  \* the option --single-shot-connection, fixed by main
  stats,     \* the counters of Stats
  pc,        \* slot -> the await it is suspended at
  requests_this_conn,
  time_up,   \* perf_counter() has reached test_end
  display,   \* live_display: "running", "done"
  main,      \* main: "gather", "display", "printed"
  attempts,  \* history: requests written to a connection
  connects,  \* history: connects begun
  ends       \* history: connections left with a request outstanding, by cause

lvars == <<single_shot_connection, stats, pc, requests_this_conn, time_up, display, main,
           attempts, connects, ends>>

Counters == {"established", "dropped", "error", "open_now", "peak_open", "ok", "lost",
             "rates"}

Pcs == {"sleep", "connect", "drain", "response", "closing", "done"}

\* The remote side closed or reset the connection, or the tester gave up: no response
\* within request_timeout, or none that read_response can parse.
Causes == {"remote", "timeout"}

\* run_slot begins as it goes on after asyncio.sleep: with the test of the clock.
LInit ==
  /\ single_shot_connection \in BOOLEAN
  /\ stats = [c \in Counters |-> 0]
  /\ pc = [s \in Slots |-> "sleep"]
  /\ requests_this_conn = [s \in Slots |-> 0]
  /\ time_up = FALSE
  /\ display = "running"
  /\ main = "gather"
  /\ attempts = 0
  /\ connects = 0
  /\ ends = [c \in Causes |-> 0]

-----------------------------------------------------------------------------
(* The methods of Stats. *)

Bump(st, c) == [st EXCEPT ![c] = @ + 1]

on_connect(st) ==
  LET now == st.open_now + 1
  IN  [st EXCEPT !.established = @ + 1, !.open_now = now,
                 !.peak_open = IF now > @ THEN now ELSE @]

on_disconnect(st, dropped_by_remote) ==
  [st EXCEPT !.open_now = @ - 1,
             !.dropped = IF dropped_by_remote THEN @ + 1 ELSE @]

record_conn_rate(st, n) == IF n > 0 THEN Bump(st, "rates") ELSE st

-----------------------------------------------------------------------------
(* run_connection. *)

At(s, from, to) == pc[s] = from /\ pc' = [pc EXCEPT ![s] = to]

EndsBy(cause) == ends' = [ends EXCEPT ![cause] = @ + 1]

\* The clock, the display and main are not the slots' own.
Others == UNCHANGED <<single_shot_connection, time_up, display, main>>

\* What happens after a connection: run_slot sleeps, or ends with the test.
AfterConnection == IF time_up THEN "done" ELSE "sleep"

\* The finally block of a connection on which n requests were answered.
Leave(s, from, st, n, dropped_by_remote) ==
  /\ At(s, from, "closing")
  /\ stats' = on_disconnect(record_conn_rate(st, n), dropped_by_remote)
  /\ requests_this_conn' = [requests_this_conn EXCEPT ![s] = 0]
  /\ UNCHANGED <<attempts, connects>>

\* The head of the request loop: write one more request, or leave.
NextRequest(s, from, st, n) ==
  IF time_up
    THEN Leave(s, from, st, n, FALSE)
    ELSE /\ attempts < MaxRequests
         /\ attempts' = attempts + 1
         /\ At(s, from, "drain")
         /\ stats' = st
         /\ requests_this_conn' = [requests_this_conn EXCEPT ![s] = n]
         /\ UNCHANGED connects

\* Mutant: the finally block does not ask whether there is a writer.
ConnectFailsDisconnects(s) ==
  /\ At(s, "connect", AfterConnection)
  /\ stats' = on_disconnect(Bump(stats, "error"), FALSE)
  /\ Others /\ UNCHANGED <<requests_this_conn, attempts, connects, ends>>

ConnectFails(s) ==
  /\ At(s, "connect", AfterConnection)
  /\ stats' = Bump(stats, "error")
  /\ Others /\ UNCHANGED <<requests_this_conn, attempts, connects, ends>>

Connected(s) ==
  /\ pc[s] = "connect"
  /\ NextRequest(s, "connect", on_connect(stats), 0)
  /\ Others /\ UNCHANGED ends

Drained(s) ==
  /\ At(s, "drain", "response")
  /\ Others /\ UNCHANGED <<stats, requests_this_conn, attempts, connects, ends>>

\* Mutant: the mode of the test is not looked at.
CountsAsLostUnlessFirst(n) == n > 0

\* Is a request that could not be sent counted as lost?  Not if it is the first
\* of a connection that was to be kept alive.
CountsAsLost(n) == ~(~single_shot_connection /\ n = 0)

DrainFails(s) ==
  /\ pc[s] = "drain"
  /\ LET n == requests_this_conn[s]
     IN  Leave(s, "drain", IF CountsAsLost(n) THEN Bump(stats, "lost") ELSE stats, n, TRUE)
  /\ Others /\ EndsBy("remote")

ResponseOk(s) ==
  /\ pc[s] = "response"
  /\ LET n == requests_this_conn[s] + 1
         st == Bump(stats, "ok")
     IN  IF single_shot_connection
           THEN Leave(s, "response", st, n, FALSE)
           ELSE NextRequest(s, "response", st, n)
  /\ Others /\ UNCHANGED ends

\* Mutant: the connection is left without telling that the remote side failed.
ResponseFailsUnnoticed(s, cause) ==
  /\ pc[s] = "response"
  /\ Leave(s, "response", Bump(stats, "lost"), requests_this_conn[s], FALSE)
  /\ Others /\ EndsBy(cause)

\* IncompleteReadError and OSError come from the remote side, TimeoutError and the
\* errors of parsing do not; both handlers set dropped_by_remote.
ResponseFails(s, cause) ==
  /\ pc[s] = "response"
  /\ Leave(s, "response", Bump(stats, "lost"), requests_this_conn[s], TRUE)
  /\ Others /\ EndsBy(cause)

-----------------------------------------------------------------------------
(* run_slot, live_display and main. *)

Closed(s) ==
  /\ At(s, "closing", AfterConnection)
  /\ Others /\ UNCHANGED <<stats, requests_this_conn, attempts, connects, ends>>

Slept(s) ==
  /\ IF time_up
       THEN At(s, "sleep", "done") /\ UNCHANGED connects
       ELSE /\ connects < MaxConnects
            /\ connects' = connects + 1
            /\ At(s, "sleep", "connect")
  /\ Others /\ UNCHANGED <<stats, requests_this_conn, attempts, ends>>

SlotStep(s) ==
  \/ ConnectFails(s) \/ Connected(s)
  \/ Drained(s) \/ DrainFails(s)
  \/ ResponseOk(s) \/ \E cause \in Causes : ResponseFails(s, cause)
  \/ Closed(s) \/ Slept(s)

Clock ==
  /\ ~time_up /\ time_up' = TRUE
  /\ UNCHANGED <<single_shot_connection, stats, pc, requests_this_conn, display, main,
                 attempts, connects, ends>>

\* Mutant: the loop of the display has no break.
LiveDisplayEndless == display = "running" /\ time_up /\ UNCHANGED lvars

\* It only reads the counters; it ends at its first tick after test_end.
LiveDisplay ==
  /\ display = "running" /\ time_up
  /\ display' = "done"
  /\ UNCHANGED <<single_shot_connection, stats, pc, requests_this_conn, time_up, main,
                 attempts, connects, ends>>

Gathered ==
  /\ main = "gather" /\ \A s \in Slots : pc[s] = "done"
  /\ main' = "display"
  /\ UNCHANGED <<single_shot_connection, stats, pc, requests_this_conn, time_up, display,
                 attempts, connects, ends>>

Prints ==
  /\ main = "display" /\ display = "done"
  /\ main' = "printed"
  /\ UNCHANGED <<single_shot_connection, stats, pc, requests_this_conn, time_up, display,
                 attempts, connects, ends>>

LNext == (\E s \in Slots : SlotStep(s)) \/ Clock \/ LiveDisplay \/ Gathered \/ Prints

\* Time passes and the event loop runs every task that is ready.  Every await of
\* a slot ends: connects and responses have timeouts, and drain and wait_closed
\* do not block on the one small request that can be outstanding.
LSpec ==
  /\ LInit /\ [][LNext]_lvars
  /\ \A s \in Slots : WF_lvars(SlotStep(s))
  /\ WF_lvars(Clock \/ LiveDisplay \/ Gathered \/ Prints)

-----------------------------------------------------------------------------
(* Properties. *)

\* Types.
LTypeOK ==
  /\ single_shot_connection \in BOOLEAN
  /\ stats \in [Counters -> Nat]
  /\ pc \in [Slots -> Pcs]
  /\ requests_this_conn \in [Slots -> Nat]
  /\ time_up \in BOOLEAN
  /\ display \in {"running", "done"} /\ main \in {"gather", "display", "printed"}
  /\ attempts \in Nat /\ connects \in Nat /\ ends \in [Causes -> Nat]

SlotsAt(P) == Cardinality({s \in Slots : pc[s] \in P})

\* open_now is the number of connections in use, whatever path a slot left the
\* last one by, and the final peak was a real count of slots.
OpenNowIsOpen ==
  /\ stats.open_now = SlotsAt({"drain", "response"})
  /\ stats.open_now <= stats.peak_open /\ stats.peak_open <= Cardinality(Slots)

\* Each connection left with a request outstanding is counted as dropped once, by
\* whichever way it was left, and loses one request: that is counted as lost, or it was
\* the first of a kept-alive connection and is counted nowhere.  A timeout counts as a
\* drop, too, although connections_dropped is documented as "connections closed /
\* reset by the remote side": the code makes no difference between the causes.
LossesAreDrops ==
  LET failures == ends["remote"] + ends["timeout"]
      counted == stats.ok + stats.lost + SlotsAt({"drain", "response"})
  IN  /\ stats.dropped = failures
      /\ counted <= attempts /\ stats.lost + (attempts - counted) = failures

\* "requests_sent: total requests attempted (ok + lost)": with one request per
\* connection every request written is counted as answered or lost once its slot
\* has left the connection.  (With kept-alive connections it is not: see
\* CountsAsLost.)
RequestsAccounted ==
  single_shot_connection =>
    attempts = stats.ok + stats.lost + SlotsAt({"drain", "response"})

\* The test ends and prints its statistics.
TestEnds == <>(main = "printed")
=============================================================================
