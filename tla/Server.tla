-------------------------------- MODULE Server --------------------------------
(***************************************************************************)
(* The requests a server works on at the same time. A request is at a      *)
(* point of its handler, between two accesses to the database, the cache   *)
(* or the browser; the modules that extend this one say what it does next. *)
(***************************************************************************)
EXTENDS Naturals, FiniteSets, TLC

CONSTANTS
  Requests,  \* requests in progress at the same time
  Calls,     \* bound: the loads to explore, each [operation -> calls]
  None

ASSUME ServerAssumption == None \notin Requests

VARIABLES
  req,    \* by request: its operation, where it is, its input and what it holds
  left    \* bound: calls still to come, by operation

Free == [op |-> "none", pc |-> "idle", arg |-> None, policy |-> None,
         epoch |-> 0, held |-> None, call |-> 0]

ServerInit ==
  /\ req = [r \in Requests |-> Free]
  /\ left \in Calls

At(r, op, pc) == req[r].op = op /\ req[r].pc = pc
Goes(r, pc) == req' = [req EXCEPT ![r].pc = pc]
Ends(r) == req' = [req EXCEPT ![r] = Free]
Call(op) == left[op] > 0 /\ left' = [left EXCEPT ![op] = @ - 1]
Starts(r, op, pc, arg) ==
  /\ req[r].pc = "idle"
  /\ Call(op)
  /\ req' = [req EXCEPT ![r] =
       [Free EXCEPT !.op = op, !.pc = pc, !.arg = arg, !.call = left[op]]]
===============================================================================
