-------------------------- MODULE TicketCacheProofs --------------------------
(***************************************************************************)
(* Safety of TicketCache for any readers and any number of writes.         *)
(***************************************************************************)
EXTENDS TicketCache, TLAPS

(* A version that was committed: the row, or one the row has left behind.   *)
Committed(v) == v = row \/ v.number < row.number

(* What each reader holds at its place, and who may be there.               *)
ReaderInv ==
  \A r \in Readers :
    /\ started[r] <= row.number
    /\ pc[r] \in {"cache", "fill"} => r \in Admins
    /\ pc[r] \in {"idle", "cache", "query"} => answer[r] = NoEntry
    /\ pc[r] = "fill" => /\ answer[r] \in Version
                         /\ answer[r].complete /\ Committed(answer[r])

(* What is cached was a completed row, and is still the row or older.       *)
CachedWasComplete ==
  cache # NoEntry => cache.complete /\ Committed(cache)

Inv == TypeOK /\ ReaderInv /\ OthersReadTheRow /\ CachedWasComplete

(* Nobody has read anything yet.                                            *)
LEMMA InitInv == Init => Inv
BY MaxWritesAssumption
   DEF Init, Inv, TypeOK, Version, ReaderInv, OthersReadTheRow,
       CachedWasComplete

(* A write leaves what was read behind: it becomes older than the row.      *)
LEMMA WriteInv ==
  ASSUME Inv, NEW b \in BOOLEAN, Write(b)
  PROVE  Inv'
<1> USE MaxWritesAssumption DEF Inv
<1>1. TypeOK'
  BY DEF Write, TypeOK, Version
<1>2. ASSUME NEW v, v \in Version, Committed(v)
      PROVE  Committed(v)'
  BY <1>2 DEF Committed, Write, TypeOK, Version
<1>3. ReaderInv'
  <2>1. row.number \in Nat /\ row'.number = row.number + 1
    BY DEF Write, TypeOK, Version
  <2>2. ASSUME NEW r \in Readers PROVE started'[r] <= row'.number
    BY <2>1 DEF Write, TypeOK, ReaderInv
  <2> QED
    BY <1>2, <2>2 DEF Write, ReaderInv, Committed
<1>4. OthersReadTheRow'
  BY DEF Write, OthersReadTheRow
<1>5. CachedWasComplete'
  BY <1>2 DEF Write, CachedWasComplete, TypeOK, Committed
<1> QED
  BY <1>1, <1>3, <1>4, <1>5

(* A request begins with no answer, and only an administrator's at the cache. *)
LEMMA BeginInv ==
  ASSUME Inv, NEW r \in Readers, Begin(r)
  PROVE  Inv'
<1> USE MaxWritesAssumption DEF Inv, Begin, Goto
<1>1. TypeOK'
  BY DEF TypeOK, Version
<1>2. ReaderInv'
  BY DEF ReaderInv, TypeOK, Version, Committed
<1>3. OthersReadTheRow'
  BY DEF OthersReadTheRow, ReaderInv, TypeOK
<1>4. CachedWasComplete'
  BY DEF CachedWasComplete, Committed
<1> QED
  BY <1>1, <1>2, <1>3, <1>4

(* A step of a reader: only an administrator's touches the cache.           *)
LEMMA ReaderStepInv ==
  ASSUME Inv, NEW r \in Readers, ReaderStep(r)
  PROVE  Inv'
<1> USE MaxWritesAssumption DEF Inv, Goto
<1>1. CASE CacheHit(r)
  <2>1. TypeOK'
    BY <1>1 DEF CacheHit, TypeOK
  <2>2. ReaderInv'
    BY <1>1 DEF CacheHit, ReaderInv, TypeOK, Committed
  <2>3. OthersReadTheRow' /\ CachedWasComplete'
    BY <1>1 DEF CacheHit, OthersReadTheRow, CachedWasComplete, Committed,
                ReaderInv, TypeOK
  <2> QED
    BY <2>1, <2>2, <2>3
<1>2. CASE CacheMiss(r)
  <2>1. TypeOK'
    BY <1>2 DEF CacheMiss, TypeOK
  <2>2. ReaderInv'
    BY <1>2 DEF CacheMiss, ReaderInv, TypeOK, Committed
  <2>3. OthersReadTheRow' /\ CachedWasComplete'
    BY <1>2 DEF CacheMiss, OthersReadTheRow, CachedWasComplete, Committed
  <2> QED
    BY <2>1, <2>2, <2>3
<1>3. CASE ReadRow(r)
  <2>1. TypeOK'
    BY <1>3 DEF ReadRow, TypeOK
  <2>2. ReaderInv'
    BY <1>3 DEF ReadRow, ReaderInv, TypeOK, Committed
  <2>3. OthersReadTheRow'
    BY <1>3 DEF ReadRow, OthersReadTheRow, ReaderInv, TypeOK, Version
  <2>4. CachedWasComplete'
    BY <1>3 DEF ReadRow, CachedWasComplete, Committed
  <2> QED
    BY <2>1, <2>2, <2>3, <2>4
<1>4. ASSUME NEW b \in BOOLEAN, Fill(r, b) PROVE Inv'
  <2>1. TypeOK'
    BY <1>4 DEF Fill, TypeOK
  <2>2. ReaderInv'
    BY <1>4 DEF Fill, ReaderInv, TypeOK, Committed
  <2>3. OthersReadTheRow'
    BY <1>4 DEF Fill, OthersReadTheRow
  <2>4. CachedWasComplete'
    BY <1>4 DEF Fill, CachedWasComplete, ReaderInv, Committed
  <2> QED
    BY <2>1, <2>2, <2>3, <2>4
<1>5. CASE Respond(r)
  <2>1. TypeOK'
    BY <1>5 DEF Respond, TypeOK
  <2>2. ReaderInv'
    BY <1>5 DEF Respond, ReaderInv, TypeOK, Committed
  <2>3. OthersReadTheRow' /\ CachedWasComplete'
    BY <1>5 DEF Respond, OthersReadTheRow, CachedWasComplete, Committed, TypeOK
  <2> QED
    BY <2>1, <2>2, <2>3
<1> QED
  BY <1>1, <1>2, <1>3, <1>4, <1>5 DEF ReaderStep

(* Every step. *)
LEMMA NextInv == Inv /\ [Next]_vars => Inv'
<1> SUFFICES ASSUME Inv, [Next]_vars PROVE Inv'
  OBVIOUS
<1>1. CASE Expire
  BY <1>1 DEF Expire, Inv, TypeOK, ReaderInv, OthersReadTheRow,
              CachedWasComplete, Committed
<1>2. CASE UNCHANGED vars
  BY <1>2 DEF vars, Inv, TypeOK, ReaderInv, OthersReadTheRow,
              CachedWasComplete, Committed
<1> QED
  BY <1>1, <1>2, WriteInv, BeginInv, ReaderStepInv DEF Next

(* The invariant holds in every behaviour. *)
THEOREM Invariance == Spec => []Inv
BY InitInv, NextInv, PTL DEF Spec

(* Every variable has its type. *)
THEOREM TypeCorrectness == Spec => []TypeOK
<1>1. Inv => TypeOK
  BY DEF Inv
<1> QED
  BY <1>1, Invariance, PTL

(* Whatever is written, cached and dropped meanwhile, a customer or an agent *)
(* is answered with a row committed no earlier than the request began.       *)
THEOREM OthersAreCurrent == Spec => []OthersReadTheRow
<1>1. Inv => OthersReadTheRow
  BY DEF Inv
<1> QED
  BY <1>1, Invariance, PTL

(* Only completed rows are cached, README.md:374: what an administrator is   *)
(* given may be stale, but it was committed, and it is no newer than the row. *)
THEOREM OnlyCompletedIsCached == Spec => []CachedWasComplete
<1>1. Inv => CachedWasComplete
  BY DEF Inv
<1> QED
  BY <1>1, Invariance, PTL

=============================================================================
