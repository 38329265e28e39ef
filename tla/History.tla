------------------------------ MODULE History -------------------------------
(***************************************************************************)
(* What the Parquet history promises to its readers                        *)
(* (docs/src/routes/docs/guides/querying-data/+page.md): the completed       *)
(* files.  A file appears at once, with all of its rows; it never changes    *)
(* after that; and no sample is a row of two files, or of one file twice:    *)
(* every file that appears holds samples observed after those of the files   *)
(* before it, in the order of their observation.  Samples are numbered in    *)
(* that order, across restarts too.                                         *)
(***************************************************************************)
EXTENDS Naturals, Sequences

CONSTANTS Name   \* what a file may be called

VARIABLES
  published,     \* the rows of every completed file, by its name
  newest         \* no sample with a higher number is in any of them

historyVars == <<published, newest>>

Rows == Seq(Nat)

Ascending(rows) == \A i, j \in DOMAIN rows : i < j => rows[i] < rows[j]

HistoryInit ==
  /\ published = [name \in {} |-> << >>]
  /\ newest = 0

Publish(name) ==
  /\ DOMAIN published' = DOMAIN published \cup {name}
  /\ name \notin DOMAIN published
  /\ \A n \in DOMAIN published : published'[n] = published[n]
  /\ newest <= newest'
  /\ published'[name] \in Rows
  /\ Ascending(published'[name])
  /\ \A i \in DOMAIN published'[name] :
       newest < published'[name][i] /\ published'[name][i] <= newest'

HistoryNext == \E name \in Name : Publish(name)

HistorySpec == HistoryInit /\ [][HistoryNext]_historyVars
=============================================================================
