---------------------------- MODULE TicketCache ----------------------------
(***************************************************************************)
(* GET /tickets/{id} in front of PostgreSQL and a Redis cache-aside copy,  *)
(* for one ticket: readers look into the cache, query the row and fill the *)
(* cache in separate steps, while classification and agents write the row  *)
(* without touching the cache.  Entries go away by their TTL only.         *)
(***************************************************************************)
EXTENDS Naturals

CONSTANTS
  Readers,   \* concurrent GET requests
  Admins,    \* those made by administrators, the only ones the cache serves
  NoEntry,   \* the cache has no entry, or the reader no answer yet
  MaxWrites  \* bound on the writes to the row

ASSUME AdminsAssumption == Admins \subseteq Readers
ASSUME MaxWritesAssumption == MaxWrites \in Nat

Version == [complete : BOOLEAN, number : 0 .. MaxWrites]

VARIABLES
  row,      \* the committed row: whether COMPLETE, and how often written
  cache,    \* the Redis entry "ticket:v1:<id>"
  pc,       \* where each request is
  answer,   \* what it has read
  started   \* history: the row's number when the request began

vars == <<row, cache, pc, answer, started>>

TypeOK ==
  /\ row \in Version
  /\ cache \in Version \cup {NoEntry}
  /\ pc \in [Readers -> {"idle", "cache", "query", "fill", "answered"}]
  /\ answer \in [Readers -> Version \cup {NoEntry}]
  /\ started \in [Readers -> 0 .. MaxWrites]

Init ==
  /\ row = [complete |-> FALSE, number |-> 0]
  /\ cache = NoEntry
  /\ pc = [r \in Readers |-> "idle"]
  /\ answer = [r \in Readers |-> NoEntry]
  /\ started = [r \in Readers |-> 0]

Goto(r, p) == pc' = [pc EXCEPT ![r] = p]

(* A worker or an agent commits a change of status or classification. *)
Write(complete) ==
  /\ row.number < MaxWrites
  /\ row' = [complete |-> complete, number |-> row.number + 1]
  /\ UNCHANGED <<cache, pc, answer, started>>

(* Mutant: the cache serves everybody. *)
Begin_Everybody(r) ==
  /\ pc[r] = "idle"
  /\ started' = [started EXCEPT ![r] = row.number]
  /\ Goto(r, "cache")
  /\ UNCHANGED <<row, cache, answer>>

Begin(r) ==
  /\ pc[r] = "idle"
  /\ started' = [started EXCEPT ![r] = row.number]
  /\ Goto(r, IF r \in Admins THEN "cache" ELSE "query")
  /\ UNCHANGED <<row, cache, answer>>

(* Mutant: an entry of another layout is answered as if it were whole. *)
CacheHit_Partial(r) ==
  /\ pc[r] = "cache"
  /\ cache # NoEntry
  /\ answer' = [answer EXCEPT ![r] = [complete |-> cache.complete]]
  /\ Goto(r, "answered")
  /\ UNCHANGED <<row, cache, started>>

CacheHit(r) ==
  /\ pc[r] = "cache"
  /\ cache # NoEntry
  /\ answer' = [answer EXCEPT ![r] = cache]
  /\ Goto(r, "answered")
  /\ UNCHANGED <<row, cache, started>>

(* Nothing there, an unreadable entry, or Redis is down: ask the database. *)
CacheMiss(r) ==
  /\ pc[r] = "cache"
  /\ Goto(r, "query")
  /\ UNCHANGED <<row, cache, answer, started>>

ReadRow(r) ==
  /\ pc[r] = "query"
  /\ answer' = [answer EXCEPT ![r] = row]
  /\ Goto(r, IF r \in Admins /\ row.complete THEN "fill" ELSE "answered")
  /\ UNCHANGED <<row, cache, started>>

(* The row was read one step earlier; SET may overwrite a newer entry, or  *)
(* fail and be ignored.                                                    *)
Fill(r, stored) ==
  /\ pc[r] = "fill"
  /\ cache' = IF stored THEN answer[r] ELSE cache
  /\ Goto(r, "answered")
  /\ UNCHANGED <<row, answer, started>>

(* The response is sent; the same client may ask again. *)
Respond(r) ==
  /\ pc[r] = "answered"
  /\ Goto(r, "idle")
  /\ answer' = [answer EXCEPT ![r] = NoEntry]
  /\ UNCHANGED <<row, cache, started>>

(* Mutant: SET without EX. *)
Expire_Never == FALSE /\ UNCHANGED vars

Expire ==
  /\ cache # NoEntry
  /\ cache' = NoEntry
  /\ UNCHANGED <<row, pc, answer, started>>

ReaderStep(r) ==
  \/ CacheHit(r)
  \/ CacheMiss(r)
  \/ ReadRow(r)
  \/ \E b \in BOOLEAN : Fill(r, b)
  \/ Respond(r)

Next ==
  \/ \E b \in BOOLEAN : Write(b)
  \/ \E r \in Readers : Begin(r) \/ ReaderStep(r)
  \/ Expire

(* Redis expires every key it was given a TTL for, and handlers go on. *)
Spec ==
  /\ Init /\ [][Next]_vars
  /\ WF_vars(Expire)
  /\ \A r \in Readers : WF_vars(ReaderStep(r))

(***************************************************************************)
(* Properties                                                              *)
(***************************************************************************)

(* Customers and agents, whose views must not be shared, are never answered *)
(* from the cache: what they see was committed no earlier than their        *)
(* request began.                                                           *)
OthersReadTheRow ==
  \A r \in Readers \ Admins :
    answer[r] # NoEntry => answer[r].number >= started[r]

(* Once writes stop, the cache converges to the row: no stale entry and no  *)
(* late fill survives its TTL.                                              *)
CacheConverges == <>[](cache # NoEntry => cache = row)

(* README.md:374, "Completed tickets alone are cached, avoiding invalidation *)
(* races for mutable states": an administrator too is answered with a row    *)
(* committed no earlier than the request began.                              *)
AdminsReadCurrent ==
  \A r \in Admins :
    answer[r] # NoEntry => answer[r].number >= started[r]
=============================================================================
