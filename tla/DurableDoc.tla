----------------------------- MODULE DurableDoc -----------------------------
(***************************************************************************)
(* What a store promises the sync channel, for one document: what has been *)
(* recorded stays, and a load returns at least everything recorded before  *)
(* it began and nothing that was never recorded.                           *)
(***************************************************************************)
EXTENDS FiniteSets

CONSTANTS Struct, Proc

VARIABLES content,  \* everything recorded
          floor,    \* per process: what was recorded when its load began
          loaded    \* per process: the result of its load, until it is used

abstractVars == <<content, floor, loaded>>

AbstractInit == /\ content = {}
                /\ floor = [p \in Proc |-> {}]
                /\ loaded = [p \in Proc |-> {}]

Record == \E u \in SUBSET Struct : /\ content' = content \cup u
                                   /\ UNCHANGED <<floor, loaded>>

BeginLoad(p) == /\ floor' = [floor EXCEPT ![p] = content]
                /\ UNCHANGED <<content, loaded>>

EndLoad(p) == \E s \in SUBSET content :
                  /\ floor[p] \subseteq s
                  /\ loaded' = [loaded EXCEPT ![p] = s]
                  /\ UNCHANGED <<content, floor>>

Forget(p) == /\ floor' = [floor EXCEPT ![p] = {}]
             /\ loaded' = [loaded EXCEPT ![p] = {}]
             /\ UNCHANGED content

AbstractNext == \/ Record
                \/ \E p \in Proc : BeginLoad(p) \/ EndLoad(p) \/ Forget(p)

AbstractSpec == AbstractInit /\ [][AbstractNext]_abstractVars
=============================================================================
