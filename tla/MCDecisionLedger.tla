-------------------------- MODULE MCDecisionLedger --------------------------
(* Instances of DecisionLedger for TLC: one recap of up to two decisions, a *)
(* host who manages and one or two members who sign.                        *)
EXTENDS DecisionLedger, TLC

\* Only a record of the AI can be cancelled, and only then do references to it
\* matter.
Kept == [r \in Recaps |-> <<source[r] \in {"call", "manual"}, source[r] = "auto", source[r] = "gone">>]

\* What has been drawn or noted matters while the sentence stands, and then more
\* than a mere signature.
Fullest ==
    {<<e[1], e[2], e[3], e[4] /\ e[3] = version[e[1]]>> : e \in
        {f \in signed : f[4] \/ <<f[1], f[2], f[3], TRUE>> \notin signed}}

\* Two states that differ only in what the safety properties and the guards
\* of their actions do not read - which lines cool down - are one.
SafetyView ==
    <<Kept, count, born, {r \in cited : source[r] = "auto"}, lineVars, acks, drawn, Fullest,
      softSent, autoLast, cooling # {}, quiet, timeVars, torn>>

\* The lines of a recap are alike, and are signed apart: the host signs the first
\* only, and only there is anything drawn or noted.
SecondInBrief == \A e \in signed : e[1][2] = 0 \/ (e[2] # Host /\ ~e[4])

\* No sentence differs from another.
Sentences == Permutations(Texts)
=============================================================================
