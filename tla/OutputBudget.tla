---------------------------- MODULE OutputBudget ----------------------------
(***************************************************************************)
(* The readers of a tool execution's two output streams (read_bounded,     *)
(* executor.rs) and the budget they share without a lock. They read until  *)
(* the end of their pipe, whatever they may still keep.                    *)
(***************************************************************************)
EXTENDS Integers

CONSTANTS StreamLimit, TotalLimit,   \* bytes to keep of one stream, and of both
          Chunks, MaxOutput          \* bounds: bytes of one read, and of a stream

ASSUME BudgetAssumption ==
    /\ Chunks \subseteq Nat \ {0}
    /\ StreamLimit \in Nat \ {0} /\ TotalLimit \in Nat \ {0} /\ MaxOutput \in Nat

VARIABLES budget,   \* OutputBudget: bytes observed and reserved; the overflow token
          reader    \* the task of each stream
budgetVars == <<budget, reader>>

Streams == {"stdout", "stderr"}

BudgetInit ==
    /\ budget = [observed |-> 0, captured |-> 0, overflow |-> FALSE]
    /\ reader = [s \in Streams |-> [pc |-> "read", total |-> 0, kept |-> 0, request |-> 0,
                                    current |-> 0, exceeded |-> FALSE]]

Smaller(a, b) == IF a < b THEN a ELSE b
Left(a, b) == IF a > b THEN a - b ELSE 0

\* A read, and the first step of observe: what all streams gave so far.
ReadChunk(s, n) ==
    /\ reader[s].pc = "read" /\ reader[s].total + n <= MaxOutput
    /\ budget' = [budget EXCEPT !.observed = @ + n]
    /\ reader' = [reader EXCEPT ![s].pc = "load", ![s].total = @ + n,
                                ![s].request = Smaller(n, Left(StreamLimit, reader[s].kept)),
                                ![s].exceeded = budget.observed + n > TotalLimit]

\* reserve_capture: load, compute, compare and exchange, again with what was found.
LoadUsed(s) ==
    /\ reader[s].pc = "load"
    /\ reader' = [reader EXCEPT ![s].pc = "reserve", ![s].current = budget.captured]
    /\ UNCHANGED budget

Granted(s) == Smaller(Left(TotalLimit, reader[s].current), reader[s].request)
Keep(s, n) == reader' = [reader EXCEPT ![s].pc = "report", ![s].kept = @ + n]

\* Mutant: the sum is stored without a comparison.
Unchallenged(s) == TRUE

Unchanged(s) == budget.captured = reader[s].current

Reserve(s) ==
    /\ reader[s].pc = "reserve"
    /\ \/ Granted(s) = 0 /\ Keep(s, 0) /\ UNCHANGED budget
       \/ /\ Granted(s) > 0 /\ Unchanged(s) /\ Keep(s, Granted(s))
          /\ budget' = [budget EXCEPT !.captured = reader[s].current + Granted(s)]
       \/ /\ Granted(s) > 0 /\ ~Unchanged(s)
          /\ reader' = [reader EXCEPT ![s].current = budget.captured]
          /\ UNCHANGED budget

ReportOverflow(s) ==
    /\ reader[s].pc = "report"
    /\ budget' = [budget EXCEPT !.overflow = @ \/ reader[s].exceeded]
    /\ reader' = [reader EXCEPT ![s].pc = "read"]

EndOfStream(s) ==
    /\ reader[s].pc = "read"
    /\ reader' = [reader EXCEPT ![s].pc = "done"]
    /\ UNCHANGED budget

BudgetNext ==
    \E s \in Streams :
        \/ \E n \in Chunks : ReadChunk(s, n)
        \/ LoadUsed(s) \/ Reserve(s) \/ ReportOverflow(s) \/ EndOfStream(s)

BudgetSpec == BudgetInit /\ [][BudgetNext]_budgetVars

-----------------------------------------------------------------------------
Kept == reader["stdout"].kept + reader["stderr"].kept

(* The two streams never keep more than the limit of both, or one more     *)
(* than its own; a finished stream left bytes out only because a limit was *)
(* used up; and more output than both may give ends the execution.         *)
OutputAccounted ==
    /\ Kept <= TotalLimit
    /\ \A s \in Streams :
        LET r == reader[s]
        IN  /\ r.kept <= Smaller(r.total, StreamLimit)
            /\ r.pc = "done" /\ r.kept < r.total => r.kept = StreamLimit \/ Kept = TotalLimit
    /\ (\A s \in Streams : reader[s].pc = "done") =>
         (budget.overflow <=> budget.observed > TotalLimit)
=============================================================================
