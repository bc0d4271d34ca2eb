----------------------------- MODULE BlockStore -----------------------------
(***************************************************************************)
(* What a block device promises its driver, whatever queue and whatever     *)
(* files are behind it: a request that was submitted is answered at most    *)
(* once, a successful read returns what the disk holds at that moment, a    *)
(* successful write changes exactly its own sectors, and a request that     *)
(* fails changes at most those.                                             *)
(***************************************************************************)
EXTENDS Naturals, Sequences

CONSTANTS
  Heads,     \* request tags
  Sectors,   \* sector numbers of the disk
  Data,      \* contents of a sector
  Requests,  \* [type, sector, segs, data, chain]
  Disk0,     \* the contents at the start
  None

VARIABLES disk, pending, reply

storeVars == <<disk, pending, reply>>

\* The sectors a request is about, and what a write stores in one of them.
Addressed(r) == {s \in Sectors : s >= r.sector /\ s < r.sector + Len(r.data)}
NewData(r, s) == r.data[s - r.sector + 1]

StoreInit ==
  /\ disk = Disk0
  /\ pending = [h \in Heads |-> None]
  /\ reply = [h \in Heads |-> None]

Submit(h, r) ==
  /\ pending[h] = None
  /\ pending' = [pending EXCEPT ![h] = r]
  /\ reply' = [reply EXCEPT ![h] = None]
  /\ UNCHANGED disk

\* The outcomes of a request: success, or failure with any part of it done.
Succeeds(h, r) ==
  /\ disk' = [s \in Sectors |->
                IF r.type = "out" /\ s \in Addressed(r) THEN NewData(r, s) ELSE disk[s]]
  /\ reply' = [reply EXCEPT ![h] =
                 [status |-> "ok",
                  data |-> IF r.type = "in" THEN [s \in Addressed(r) |-> disk[s]] ELSE <<>>]]

Fails(h, r, status) ==
  /\ \E part \in SUBSET Addressed(r) :
       disk' = [s \in Sectors |->
                  IF r.type = "out" /\ s \in part THEN NewData(r, s) ELSE disk[s]]
  /\ reply' = [reply EXCEPT ![h] = [status |-> status, data |-> <<>>]]

Serve(h) ==
  /\ pending[h] # None /\ reply[h] = None
  /\ \/ Succeeds(h, pending[h])
     \/ \E status \in {"ioerr", "unsupp", "lost"} : Fails(h, pending[h], status)
  /\ UNCHANGED pending

Collect(h) ==
  /\ reply[h] # None
  /\ pending' = [pending EXCEPT ![h] = None]
  /\ reply' = [reply EXCEPT ![h] = None]
  /\ UNCHANGED disk

Reset ==
  /\ pending' = [h \in Heads |-> None]
  /\ reply' = [h \in Heads |-> None]
  /\ UNCHANGED disk

StoreNext ==
  \/ \E h \in Heads : \/ \E r \in Requests : Submit(h, r)
                      \/ Serve(h) \/ Collect(h)
  \/ Reset

StoreSpec == StoreInit /\ [][StoreNext]_storeVars
=============================================================================
