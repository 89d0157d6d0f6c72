------------------------------- MODULE MCCall -------------------------------
(***************************************************************************)
(* Small instances of Call for TLC: who calls whom.                        *)
(***************************************************************************)
EXTENDS Call, TLC

CONSTANTS a, b, c

\* One call.
OneCall == (a :> <<b>>) @@ (b :> <<>>)

\* The same user calls again, perhaps while the first call is still ending,
\* and the other user calls her: redialling and glare.
Both == (a :> <<b, b>>) @@ (b :> <<a>>)

\* Two users call a third.
Contend == (a :> <<b>>) @@ (b :> <<>>) @@ (c :> <<b>>)

(***************************************************************************)
(* In Both the users' impatience is bounded again when much is going on:   *)
(* when all three calls have been dialled or a process has died, one call  *)
(* is hung up.  That run checks safety, so the bound is a state constraint.*)
(***************************************************************************)
Outgoing == UNION {{u} \X {i \in DOMAIN ses[u] : ~ses[u][i].coming} : u \in User}
PatientBoth ==
  Cardinality(Outgoing) = 3 \/ (\E u \in {a, b} : ~alive[u]) =>
    Cardinality(HungUpCalls) <= 1

(***************************************************************************)
(* In Contend the second caller dials when b has been called by the first: *)
(* which of the two is first makes no difference, and until then the steps *)
(* of the two do not touch.  Once she has dialled, the accept button of a  *)
(* call is pressed once.  That run checks liveness too, so the bound is on *)
(* steps: it only stops users, who are under no fairness, and the          *)
(* behaviours left are fair behaviours of FairSpec.                        *)
(***************************************************************************)
Patient ==
  ses[c] # <<>> \/ ~alive[c] =>
    /\ ses[b] # <<>> \/ ~alive[b]
    /\ \A u \in User : \A i \in DOMAIN ses[u] : ses[u][i].clicks <= 1

PatientSpec == Init /\ [][Next /\ Patient']_vars /\ Fairness

=============================================================================
