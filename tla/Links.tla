------------------------------- MODULE Links -------------------------------
(***************************************************************************)
(* How good the links of a node are and what follows for its relays: the   *)
(* loss estimate and ETX of g_ntable (neighbor_table.c), the score, and    *)
(* the forward set (fwd_set.h) that silences or delays a relay.  The rows  *)
(* are sources that each send one frame a round, numbered alike, and       *)
(* whoever hears a row hears those before it, so the first row misses      *)
(* least; a frame may come again late.  The signal is one base for all.    *)
(***************************************************************************)
EXTENDS Naturals, FiniteSets, SequencesExt

CONSTANTS LnRows,      \* rows in use, at most NTABLE_SIZE
          LnCap,       \* NTABLE_LOSS_MAX_GAP
          LnSeqMod,    \* sequence numbers count modulo LnSeqMod, 2^16
          LnMod,       \* tb_millis() counts modulo LnMod, 2^32; a round is one tick
          LnStale,     \* NTABLE_STALE_MS
          LnExpiry,    \* NTABLE_EXPIRY_MS
          LnBases,     \* what the signal alone scores, 0..100
          LnSetMax,    \* FWDSET_MAX
          MaxRounds    \* bound on rounds

ASSUME LnAssumption ==
  /\ {LnRows, LnCap, LnSeqMod, LnMod, LnExpiry, LnSetMax, MaxRounds} \subseteq Nat \ {0}
  /\ LnStale \in Nat /\ LnStale < LnExpiry /\ LnExpiry < LnMod /\ LnBases \subseteq 0..100
  \* A frame that comes late is ahead by more than the gap that is charged.
  /\ LnCap + 2 <= LnSeqMod /\ LnSeqMod > 2 /\ LnMod > 2

VARIABLES lnNow,      \* tb_millis()
          lnRound,    \* rounds so far
          lnSeq,      \* number of this round's frames
          lnTable,    \* g_ntable, a row for each source
          lnDirect,   \* the sources heard without a relay
          lnBase,     \* base score of the signal
          lnAirtime,  \* the build scores by ETX: RIVR_FEATURE_AIRTIME_ROUTING
          lnGapped,   \* history: rows charged with LnCap misses at once
          lnFirst     \* history: the number of each row's first frame

lnVars == <<lnNow, lnRound, lnSeq, lnTable, lnDirect, lnBase, lnAirtime, lnGapped, lnFirst>>

Sources == 1..LnRows
Entry == [used : BOOLEAN, last : 0..LnMod - 1, seq : 0..LnSeqMod - 1, loss : 0..99,
          etx : 8..255, direct : BOOLEAN]
Unused == [used |-> FALSE, last |-> 0, seq |-> 0, loss |-> 0, etx |-> 8, direct |-> FALSE]

\* Bound: the clock and the numbers start shortly before they wrap.
LnInit ==
  /\ lnNow = LnMod - 3 /\ lnSeq = LnSeqMod - 3 /\ lnRound = 0
  /\ lnTable = [r \in Sources |-> Unused]
  /\ lnDirect \in SUBSET Sources
  /\ lnBase \in LnBases /\ lnAirtime \in BOOLEAN
  /\ lnGapped = {} /\ lnFirst = [r \in Sources |-> 0]

-----------------------------------------------------------------------------
\* The frames between the last one of a row and this one; one that comes late is ahead
\* by almost a whole cycle.
Missed(entry, seq) ==
  LET between == (seq + 2 * LnSeqMod - entry.seq - 1) % LnSeqMod
  IN  IF between > LnCap THEN LnCap ELSE between

\* update_loss_rate_ewma: each miss draws the rate to 100, then this frame to 0.
DrawnUp(loss) == (loss * 7 + 100) \div 8
LossRates(loss) ==
  LET drawn[m \in 0..LnCap] == IF m = 0 THEN loss ELSE DrawnUp(drawn[m - 1]) IN drawn
LossAfter(loss, missed) == (LossRates(loss)[missed] * 7) \div 8

\* recompute_etx
EtxOf(loss) ==
  LET etx == 800 \div (100 - loss)
  IN  CASE loss >= 100 \/ etx > 255 -> 255 [] etx < 8 -> 8 [] OTHER -> etx

\* neighbor_update: a row's first frame seeds it without loss.
Observe(entry, seq, direct) ==
  LET loss == IF entry.used THEN LossAfter(entry.loss, Missed(entry, seq)) ELSE 0 IN
  [used |-> TRUE, last |-> lnNow, seq |-> seq, loss |-> loss, etx |-> EtxOf(loss),
   direct |-> entry.direct \/ direct]

\* Frame seq of each of the rows is accepted.
Hears(rows, seq) ==
  /\ lnTable' = [r \in Sources |-> IF r \in rows THEN Observe(lnTable[r], seq, r \in lnDirect)
                                   ELSE lnTable[r]]
  /\ lnGapped' = lnGapped \cup {r \in rows : lnTable[r].used /\ Missed(lnTable[r], seq) = LnCap}
  /\ lnFirst' = [r \in Sources |-> IF r \in rows /\ ~lnTable[r].used THEN seq ELSE lnFirst[r]]

\* A round: the first k rows are heard.
Round(k) ==
  /\ lnRound < MaxRounds
  /\ Hears(1..k, lnSeq)
  /\ lnRound' = lnRound + 1 /\ lnSeq' = (lnSeq + 1) % LnSeqMod /\ lnNow' = (lnNow + 1) % LnMod
  /\ UNCHANGED <<lnDirect, lnBase, lnAirtime>>

\* A row's frame of two rounds ago is heard only now, overtaken by the one after it.
HearLate(r) ==
  /\ lnRound < MaxRounds /\ lnRound >= 2
  /\ lnTable[r].used /\ lnTable[r].seq = (lnSeq + LnSeqMod - 1) % LnSeqMod
  /\ Hears({r}, (lnSeq + 2 * LnSeqMod - 2) % LnSeqMod)
  /\ lnRound' = lnRound + 1
  /\ UNCHANGED <<lnNow, lnSeq, lnDirect, lnBase, lnAirtime>>

\* Bound: the node restarts after MaxRounds, and neighbor_table_init clears the rows.
LnRestart ==
  /\ lnRound = MaxRounds
  /\ lnNow' = LnMod - 3 /\ lnSeq' = LnSeqMod - 3 /\ lnRound' = 0
  /\ lnTable' = [r \in Sources |-> Unused]
  /\ lnGapped' = {} /\ lnFirst' = [r \in Sources |-> 0]
  /\ UNCHANGED <<lnDirect, lnBase, lnAirtime>>

LnNext == LnRestart \/ (\E k \in 0..LnRows : Round(k)) \/ (\E r \in Sources : HearLate(r))

-----------------------------------------------------------------------------
LnAge(r) == (lnNow + LnMod - lnTable[r].last) % LnMod

\* neighbor_link_score_full, of which neighbor_link_score is the build without ETX.
Score(r) ==
  LET entry == lnTable[r]
      quality == IF lnAirtime THEN (lnBase * 8) \div entry.etx
                 ELSE (lnBase * (100 - entry.loss)) \div 100
  IN  IF ~entry.used \/ LnAge(r) >= LnExpiry THEN 0
      ELSE (quality * (LnExpiry - LnAge(r))) \div LnExpiry

\* neighbor_find and routing_next_hop_score: an expired row is as if absent.
Found(r) == lnTable[r].used /\ LnAge(r) < LnExpiry
NextHopScore(r) == IF Found(r) THEN Score(r) ELSE 0

\* neighbor_best: the first row of the best score above 0, {} when there is none.
BestRow ==
  LET best == {r \in Sources : Score(r) > 0 /\ \A q \in Sources : Score(q) <= Score(r)}
  IN  {r \in best : \A q \in best : r <= q}

-----------------------------------------------------------------------------
\* Mutant: a row that takes the weakest place is not moved up.
Candidates_Unsorted ==
  LET add(set, r) ==
        LET ahead == Cardinality({i \in DOMAIN set : set[i].score >= Score(r)})
            row == [id |-> r, score |-> Score(r)]
        IN  IF lnTable[r].used /\ LnAge(r) <= LnStale
            THEN IF Len(set) < LnSetMax THEN InsertAt(set, ahead + 1, row)
                 ELSE IF ahead < LnSetMax THEN [set EXCEPT ![LnSetMax] = row] ELSE set
            ELSE set
  IN  FoldLeft(add, <<>>, [r \in Sources |-> r])

\* The candidates of fwdset_build: each live row, in the order of the table, goes before
\* the ones it beats, and the weakest beyond LnSetMax falls out.
Candidates ==
  LET add(set, r) ==
        LET ahead == Cardinality({i \in DOMAIN set : set[i].score >= Score(r)})
            more == InsertAt(set, ahead + 1, [id |-> r, score |-> Score(r)])
        IN  IF lnTable[r].used /\ LnAge(r) <= LnStale
            THEN IF Len(more) > LnSetMax THEN Front(more) ELSE more
            ELSE set
  IN  FoldLeft(add, <<>>, [r \in Sources |-> r])

\* The figures of fwdset_build.
LiveLinks == {r \in Sources : lnTable[r].used /\ LnAge(r) <= LnStale}
BestDirect ==
  CHOOSE s \in 0..100 :
    /\ s = 0 \/ \E r \in LiveLinks : lnTable[r].direct /\ Score(r) = s
    /\ \A r \in LiveLinks : lnTable[r].direct => Score(r) <= s
ViableCount == Cardinality({r \in LiveLinks : Score(r) >= 20})

\* fwdset_suppress_relay
SuppressRelay == ViableCount > 0 /\ BestDirect < 20

\* fwdset_extra_holdoff_ms
ExtraHoldoff ==
  (CASE BestDirect >= 70 -> 0 [] BestDirect \in 40..69 -> 50
     [] BestDirect \in 20..39 -> 120 [] OTHER -> 0)
  + (CASE ViableCount >= 4 -> 80 [] ViableCount \in 2..3 -> 40 [] OTHER -> 0)

\* The RX loop's gate: the delay added to a relay, none when it is silenced.
AddedDelay == IF SuppressRelay THEN {} ELSE {ExtraHoldoff}

-----------------------------------------------------------------------------
LnTypeOK ==
  /\ lnNow \in 0..LnMod - 1 /\ lnSeq \in 0..LnSeqMod - 1 /\ lnRound \in 0..MaxRounds
  /\ lnTable \in [Sources -> Entry] /\ lnDirect \subseteq Sources

\* Of two links known from the same frame on and heard in the same round, neither ever
\* charged with LnCap misses at once, the one that missed more does not score better
\* (neighbor_table.c:70-115).
MissingNeverPays ==
  \A r, q \in Sources \ lnGapped :
    r < q /\ lnTable[r].used /\ lnTable[q].used /\ lnFirst[r] = lnFirst[q]
      /\ lnTable[r].last = lnTable[q].last /\ lnTable[r].seq = lnTable[q].seq
    => NextHopScore(r) >= NextHopScore(q)

\* The candidates are the best of the live rows, best first (fwd_set.h:159-188).
CandidatesBest ==
  LET set == Candidates
      in == {set[i].id : i \in DOMAIN set}
  IN  /\ \A i, j \in DOMAIN set : i < j => set[i].score >= set[j].score
      /\ \A r \in LiveLinks \ in : \A i \in DOMAIN set : Score(r) <= set[i].score
      /\ in \subseteq LiveLinks
      /\ Cardinality(in) = IF Cardinality(LiveLinks) < LnSetMax THEN Cardinality(LiveLinks)
                           ELSE LnSetMax
      /\ \A r \in BestRow : r \in LiveLinks => Score(r) = set[1].score

\* A relay is silenced only by a viable source behind another relay, and held back
\* longer only where two are viable or the best direct link is middling (fwd_set.h:208-271).
SilencedOnlyIfCovered ==
  /\ AddedDelay = {} => \E r \in LiveLinks : ~lnTable[r].direct /\ Score(r) >= 20
  /\ \A ms \in AddedDelay : ms > 0 /\ ViableCount < 2
       => \E r \in LiveLinks : lnTable[r].direct /\ Score(r) \in 20..69

LinksKept == MissingNeverPays /\ CandidatesBest /\ SilencedOnlyIfCovered
=============================================================================
