----------------------------- MODULE TransferSpec -----------------------------
(***************************************************************************)
(* What the data plane promises: a read of a peer's memory is granted or   *)
(* refused at one moment, by whether the range lies in full within one     *)
(* region the peer has registered by then; a granted read returns exactly  *)
(* the bytes of the range; any read may fail instead.  There are no        *)
(* connections, no framing and no locks here.                              *)
(***************************************************************************)
EXTENDS Naturals, Sequences

CONSTANTS
    Readers,  \* threads that read
    Peers,    \* servers
    Regions,  \* what a peer may register: [first, last]
    Ranges,   \* what a reader may ask for: [first, last]
    NoPeer, NoRange

VARIABLES
    served,   \* peer -> the regions it has registered
    op        \* reader -> its latest read: [state, peer, want, data]

transferVars == <<served, op>>

Ended == {"none", "done", "rejected", "failed"}

\* The bytes of a range of peer p's memory; byte a of it is [of |-> p, byte |-> a].
Content(p, range) ==
    [i \in 1 .. range.last - range.first |-> [of |-> p, byte |-> range.first + i - 1]]

Covers(regions, range) ==
    \E region \in regions : region.first <= range.first /\ range.last <= region.last

TransferInit ==
    /\ served = [p \in Peers |-> {}]
    /\ op = [r \in Readers |->
                 [state |-> "none", peer |-> NoPeer, want |-> NoRange, data |-> <<>>]]

RegisterRegion(p, region) ==
    /\ served' = [served EXCEPT ![p] = @ \cup {region}]
    /\ UNCHANGED op

AskFor(r, p, range) ==
    /\ op[r].state \in Ended
    /\ op' = [op EXCEPT ![r] =
                 [state |-> "pending", peer |-> p, want |-> range, data |-> <<>>]]
    /\ UNCHANGED served

Becomes(r, state) ==
    /\ op' = [op EXCEPT ![r].state = state]
    /\ UNCHANGED served

Grant(r) ==
    /\ op[r].state = "pending"
    /\ Covers(served[op[r].peer], op[r].want)
    /\ Becomes(r, "granted")

Refuse(r) ==
    /\ op[r].state = "pending"
    /\ ~Covers(served[op[r].peer], op[r].want)
    /\ Becomes(r, "refused")

Complete(r) ==
    /\ op[r].state = "granted"
    /\ op' = [op EXCEPT ![r].state = "done",
                        ![r].data = Content(op[r].peer, op[r].want)]
    /\ UNCHANGED served

Reject(r) ==
    /\ op[r].state = "refused"
    /\ Becomes(r, "rejected")

Fail(r) ==
    /\ op[r].state \notin Ended
    /\ Becomes(r, "failed")

TransferNext ==
    \/ \E p \in Peers, region \in Regions : RegisterRegion(p, region)
    \/ \E r \in Readers :
           \/ \E p \in Peers, range \in Ranges : AskFor(r, p, range)
           \/ Grant(r)
           \/ Refuse(r)
           \/ Complete(r)
           \/ Reject(r)
           \/ Fail(r)

TransferSpecification == TransferInit /\ [][TransferNext]_transferVars
==============================================================================
