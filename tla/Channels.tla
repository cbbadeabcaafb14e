------------------------------ MODULE Channels ------------------------------
(***************************************************************************)
(* channel.c: the table of channels a node has joined and the one it sends *)
(* on by default, kept twice - as a flag of each membership and as an      *)
(* index - and saved as one blob.  Muting, hiding and the unread counters  *)
(* meet none of this and are left out.                                     *)
(***************************************************************************)
EXTENDS Naturals

CONSTANTS Channels,   \* the named channels; 0 is Global
          JoinedAtBoot

ASSUME ChAssumption == 0 \in JoinedAtBoot /\ JoinedAtBoot \subseteq Channels /\ Channels \subseteq Nat

VARIABLES chTable,  \* g_channel_table
          chSaved   \* the blob in flash, <<>> when there is none

chVars == <<chTable, chSaved>>

\* s_default_membership.
ChDefaults ==
  [joined |-> JoinedAtBoot, default |-> {0}, index |-> 0]

ChInit == chTable = ChDefaults /\ chSaved = <<>>

ChJoin(c) ==
  /\ chTable' = [chTable EXCEPT !.joined = @ \cup {c}]
  /\ UNCHANGED chSaved

\* Mutant: leaving forgets the default.
ChLeft_KeepDefault(c) == [chTable EXCEPT !.joined = @ \ {c}]

\* Leaving the default channel falls back to Global.
ChLeft(c) ==
  IF c \in chTable.default
  THEN [chTable EXCEPT !.joined = @ \ {c}, !.default = (@ \ {c}) \cup {0}, !.index = 0]
  ELSE [chTable EXCEPT !.joined = @ \ {c}]

ChLeave(c) ==
  /\ c # 0
  /\ chTable' = ChLeft(c)
  /\ UNCHANGED chSaved

ChSetDefault(c) ==
  /\ c \in chTable.joined
  /\ chTable' = [chTable EXCEPT !.default = {c}, !.index = c]
  /\ UNCHANGED chSaved

\* channel_persist_save; a failed write leaves the old blob.
ChSave ==
  /\ chSaved' = <<[chTable EXCEPT !.index = 0]>>
  /\ UNCHANGED chTable

\* A restart: channel_init, then channel_persist_load, which takes the index from
\* the saved flags and fails when the blob is absent or damaged.
ChRestart(loads) ==
  /\ loads => chSaved # <<>>
  /\ chTable' = IF ~loads THEN ChDefaults
                ELSE LET saved == chSaved[1] IN
                     [saved EXCEPT !.index = IF saved.default = {} THEN 0
                                             ELSE CHOOSE c \in saved.default :
                                                    \A d \in saved.default : d <= c]
  /\ UNCHANGED chSaved

ChNext ==
  \/ \E c \in Channels : ChJoin(c) \/ ChLeave(c) \/ ChSetDefault(c)
  \/ ChSave \/ \E loads \in BOOLEAN : ChRestart(loads)

-----------------------------------------------------------------------------
ChTypeOK == chTable.joined \cup chTable.default \cup {chTable.index} \subseteq Channels

\* A node sends by default on one channel, which it has joined, and the flag and
\* the index name the same one, through joins, leaves, saves and restarts
\* (channel.c:206-252, :386-437).
DefaultJoined == chTable.default = {chTable.index} /\ chTable.index \in chTable.joined
=============================================================================
