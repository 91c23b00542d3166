---------------------------- MODULE RidDisplay ----------------------------
(***************************************************************************)
(* Showing the flights of other providers (clients/dss_rid_client.py): the *)
(* subscription to the DSS, the rounds of questions to the providers it    *)
(* names, and the cluster that hides the positions of an area.             *)
(*                                                                         *)
(* A provider is [token, status, flights]: whether the authority grants a  *)
(* token for it, the code of its answer and the flights in that; a flight  *)
(* is [id, details : the code of the answer to their query, state : there  *)
(* is a current one, position : it is complete].                           *)
(***************************************************************************)
EXTENDS Integers, Sequences, FiniteSets, SequencesExt, FiniteSetsExt

CONSTANT Nobody \* the answer when the DSS named no subscription

(* create_dss_subscription.  The DSS has the subscription from its answer  *)
(* on; the row is written after that, and it is only the row that a poll   *)
(* looks for.                                                              *)
Subscribe(audience, token, code) ==
  LET made == audience /\ token = "granted" /\ code = 200 IN
  [asked |-> audience /\ token = "granted", created |-> made,
   subscription |-> IF made THEN "the one of the DSS" ELSE Nobody]

-----------------------------------------------------------------------------
(* query_uss_for_rid.  The outcome of a round so far is [known : flights   *)
(* with details, written : the observations, raised].  After an error      *)
(* nothing more is asked.                                                  *)

Idle(known) == [known |-> known, written |-> <<>>, raised |-> FALSE]

\* Details are asked for once; a refusal leaves them unknown.
DetailsOf(o, flight) ==
  IF flight.id \in o.known \/ flight.details # 200 THEN o
  ELSE [o EXCEPT !.known = @ \cup {flight.id}]

\* A flight without a state is left out; the complaint about an incomplete
\* position names a field no flight has, and is an error itself.
Take(o, flight) ==
  IF o.raised THEN o
  ELSE LET d == DetailsOf(o, flight) IN
       CASE ~flight.state -> d
         [] flight.state /\ flight.position -> [d EXCEPT !.written = Append(@, flight.id)]
         [] OTHER -> [d EXCEPT !.raised = TRUE]

\* A provider without a token is an error, one that refuses is passed over.
Ask(o, provider) ==
  IF o.raised THEN o
  ELSE IF ~provider.token THEN [o EXCEPT !.raised = TRUE]
  ELSE IF provider.status = 200 THEN FoldLeft(Take, o, provider.flights)
  ELSE o

Round(o, providers) == FoldLeft(Ask, o, providers)

\* The rounds of a poll share one transaction: nothing of them is seen before
\* the last has ended, and nothing ever when one of them fails.
Poll(known, providers, rounds) ==
  LET o == FoldLeft(LAMBDA before, r : Round(before, providers), Idle(known), [r \in 1..rounds |-> r]) IN
  IF o.raised THEN [o EXCEPT !.known = known, !.written = <<>>] ELSE o

-----------------------------------------------------------------------------
(* extend_cluster and generate_cluster_details.  A box is <<west, south,   *)
(* east, north>> in metres (the code adds metres to degrees).  Each        *)
(* extension starts from the box that was given, so the last one wins.     *)

Widen(box, by) == <<box[1] - by, box[2], box[3] + by, box[4]>>
Heighten(box, by) == <<box[1], box[2] - by, box[3], box[4] + by>>

\* Obfuscation: at least twice the distance either way; share: of the area of
\* the view, in percent.  The third extension, by a square root, is "scaled".
Extend(box, obfuscation, share, viewArea) ==
  LET width == box[3] - box[1]
      height == box[4] - box[2] IN
  IF 100 * width * height < viewArea * share
    THEN IF width * height = 0 THEN <<"raised">> ELSE <<"scaled">>
  ELSE IF height < 2 * obfuscation THEN Heighten(box, obfuscation - height \div 2)
  ELSE IF width < 2 * obfuscation THEN Widen(box, obfuscation - width \div 2)
  ELSE box

\* The corners of the view are positions too: no cluster is smaller than it.
ClusterBox(view, positions) ==
  LET x == {p[1] : p \in positions} \cup {view[1], view[3]}
      y == {p[2] : p \in positions} \cup {view[2], view[4]} IN
  <<Min(x), Min(y), Max(x), Max(y)>>
=============================================================================
