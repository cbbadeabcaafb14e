----------------------------- MODULE Neighbors ------------------------------
(***************************************************************************)
(* Who this node hears: g_neighbor_table (routing.c) and g_ntable          *)
(* (neighbor_table.c).  Both are filled by every frame the RX loop         *)
(* accepts; when full, the first evicts by age, the second by the smallest *)
(* time.  Nothing in the program calls neighbor_table_expire, so an entry  *)
(* leaves only when evicted.  Signal averages, loss rate, callsign, role   *)
(* and position are data no operation here decides by, and are left out.   *)
(***************************************************************************)
EXTENDS Naturals, FiniteSets

CONSTANTS Peers,        \* source ids heard
          NbSize,       \* NEIGHBOR_TABLE_SIZE, NTABLE_SIZE
          NbStale,      \* NTABLE_STALE_MS
          NbMod,        \* tb_millis() counts modulo NbMod, 2^32
          MaxHop        \* RIVR_PKT_DEFAULT_TTL

ASSUME NbAssumption ==
  /\ {NbSize, NbStale, NbMod, MaxHop} \subseteq Nat \ {0}
  /\ NbStale < NbMod
  /\ 0 \notin Peers

VARIABLES list,     \* g_neighbor_table
          ntable,   \* g_ntable
          nbNow,    \* tb_millis()
          heard,    \* history: time since each peer was heard, up to NbMod
          nbLost    \* history: a peer was evicted before one silent for longer

nbVars == <<list, ntable, nbNow, heard, nbLost>>

Rows == 1 .. NbSize
Nobody == 0
NbAge(at) == (nbNow + NbMod - at) % NbMod
FirstRow(S) == CHOOSE i \in S : \A j \in S : i <= j
Find(t, p) == {i \in Rows : t[i].id = p}

EmptyRow == [id |-> Nobody, last |-> 0, hops |-> 0]
EmptyEntry == [id |-> Nobody, last |-> 0, direct |-> FALSE]

\* routing_neighbor_init, neighbor_table_init
NbInit ==
  /\ nbNow \in 0 .. NbMod - 1
  /\ list = [i \in Rows |-> EmptyRow]
  /\ ntable = [i \in Rows |-> EmptyEntry]
  /\ heard = [p \in Peers |-> NbMod]
  /\ nbLost = FALSE

-----------------------------------------------------------------------------
\* neighbor_fill_slot
FillSlot(r, p, hops) == [r EXCEPT !.id = p, !.last = nbNow, !.hops = hops]

\* neighbor_update_existing: the shortest distance ever heard is kept.
UpdateExisting(r, hops) ==
  [r EXCEPT !.last = nbNow, !.hops = IF hops < @ THEN hops ELSE @]

\* The row routing_neighbor_update writes: the first one of p or empty, else
\* the one with the greatest age.
ListRow(p) ==
  LET stop == Find(list, p) \cup Find(list, Nobody)
      old == {i \in Rows : \A j \in Rows : NbAge(list[j].last) <= NbAge(list[i].last)}
  IN  IF stop # {} THEN FirstRow(stop) ELSE FirstRow(old)

ListUpdate(p, hop) ==
  LET i == ListRow(p)
  IN  IF hop + 1 > MaxHop THEN list
      ELSE [list EXCEPT ![i] = IF @.id = p THEN UpdateExisting(@, hop + 1)
                               ELSE FillSlot(@, p, hop + 1)]

-----------------------------------------------------------------------------
\* Mutant: the entry seen last is evicted.
Oldest_Newest == CHOOSE i \in Rows : \A j \in Rows : ntable[j].last <= ntable[i].last

\* oldest_slot: the smallest time, the wrap of the clock not regarded.
Oldest == FirstRow({i \in Rows : \A j \in Rows : ntable[i].last <= ntable[j].last})

\* find_slot, else the row at count, else oldest_slot.
TableRow(p) ==
  CASE Find(ntable, p) # {} -> FirstRow(Find(ntable, p))
    [] Find(ntable, p) = {} /\ Find(ntable, Nobody) # {} -> FirstRow(Find(ntable, Nobody))
    [] OTHER -> Oldest

\* neighbor_update: a direct peer stays direct until its entry is evicted.
TableUpdate(p, hop) ==
  LET i == TableRow(p)
      e == IF ntable[i].id = p THEN ntable[i] ELSE [EmptyEntry EXCEPT !.id = p]
  IN  [ntable EXCEPT ![i] = [e EXCEPT !.last = nbNow, !.direct = @ \/ hop = 0]]

\* neighbor_table_link_summary: the peers that hold beacons back.
LiveRows == {i \in Rows : ntable[i].id # Nobody /\ NbAge(ntable[i].last) < NbStale}

-----------------------------------------------------------------------------
\* Row i goes to p although another row holds a peer silent for longer.
EvictsYounger(i, p) ==
  /\ ntable[i].id \notin {p, Nobody}
  /\ \E j \in Rows : heard[ntable[j].id] > heard[ntable[i].id]
  /\ \A j \in Rows : ntable[j].last <= nbNow /\ heard[ntable[j].id] < NbMod

\* An accepted frame: both tables learn its source.
Hear(p, hop) ==
  /\ list' = ListUpdate(p, hop)
  /\ ntable' = TableUpdate(p, hop)
  /\ nbLost' = (nbLost \/ EvictsYounger(TableRow(p), p))
  /\ heard' = [heard EXCEPT ![p] = 0]
  /\ UNCHANGED nbNow

NbTick ==
  /\ nbNow' = (nbNow + 1) % NbMod
  /\ heard' = [p \in Peers |-> IF heard[p] < NbMod THEN heard[p] + 1 ELSE NbMod]
  /\ UNCHANGED <<list, ntable, nbLost>>

NbNext == NbTick \/ \E p \in Peers, hop \in 0 .. MaxHop : Hear(p, hop)

-----------------------------------------------------------------------------
NbTypeOK ==
  /\ list \in [Rows -> [id : Peers \cup {Nobody}, last : 0 .. NbMod - 1, hops : 0 .. MaxHop]]
  /\ ntable \in [Rows -> [id : Peers \cup {Nobody}, last : 0 .. NbMod - 1, direct : BOOLEAN]]
  /\ nbNow \in 0 .. NbMod - 1

OneRowEach ==
  \A p \in Peers : Cardinality(Find(list, p)) <= 1 /\ Cardinality(Find(ntable, p)) <= 1

\* A peer counts as live only if heard of within NbStale, or not at all for a
\* whole cycle of the clock, after which its entry looks fresh again.
LiveAreFresh ==
  \A i \in LiveRows : heard[ntable[i].id] < NbStale \/ heard[ntable[i].id] = NbMod

(***************************************************************************)
(* Both tables hold each peer once (routing.c lines 225-252), a full       *)
(* g_ntable evicts the peer silent for longest (neighbor_table.c lines     *)
(* 44-55), and the peers that hold beacons back were heard within          *)
(* NTABLE_STALE_MS.  Left out: a peer silent for a whole cycle of the      *)
(* clock, which no expiry removes, and an eviction among entries on both   *)
(* sides of its wrap, where the smallest time is the newest.               *)
(***************************************************************************)
NeighboursTrue == OneRowEach /\ ~nbLost /\ LiveAreFresh
=============================================================================
