----------------------------- MODULE ObjectStore ----------------------------
(***************************************************************************)
(* What persistent Storage promises its clients.  A request takes effect   *)
(* at most once, in one step, after it began; a successful answer follows  *)
(* its effect and a refused request never has one.  A request that was     *)
(* dropped, or was under way in a crash, may or may not take effect.       *)
(* There are no files, locks, jobs or crashes here: Storage has them and   *)
(* implements this specification.                                          *)
(***************************************************************************)
EXTENDS Naturals

CONSTANTS Requests, Objects, Ops

VARIABLES
  status,   \* of each request
  op,       \* of each request that began: its kind and object
  objects,  \* the generation of each object, 0 when there is none
  lastGen   \* the last generation handed out

ovars == <<status, op, objects, lastGen>>

Init ==
  /\ status = [r \in Requests |-> "new"]
  /\ op \in [Requests -> Ops]
  /\ objects = [o \in Objects |-> 0]
  /\ lastGen = 0

Begin(r, x) ==
  /\ status[r] = "new"
  /\ status' = [status EXCEPT ![r] = "begun"]
  /\ op' = [op EXCEPT ![r] = x]
  /\ UNCHANGED <<objects, lastGen>>

Apply(r) ==
  /\ status[r] = "begun"
  /\ status' = [status EXCEPT ![r] = "applied"]
  /\ \/ /\ op[r].kind = "put"
        /\ lastGen' = lastGen + 1
        /\ objects' = [objects EXCEPT ![op[r].obj] = lastGen + 1]
     \/ /\ op[r].kind = "delete"
        /\ objects' = [objects EXCEPT ![op[r].obj] = 0]
        /\ UNCHANGED lastGen
     \/ op[r].kind = "get" /\ UNCHANGED <<objects, lastGen>>
  /\ UNCHANGED op

Answer(r) ==
  /\ status[r] = "applied"
  /\ status' = [status EXCEPT ![r] = "answered"]
  /\ UNCHANGED <<op, objects, lastGen>>

Refuse(r) ==
  /\ status[r] = "begun"
  /\ status' = [status EXCEPT ![r] = "refused"]
  /\ UNCHANGED <<op, objects, lastGen>>

Next ==
  \E r \in Requests :
    (\E x \in Ops : Begin(r, x)) \/ Apply(r) \/ Answer(r) \/ Refuse(r)

Spec == Init /\ [][Next]_ovars
=============================================================================
