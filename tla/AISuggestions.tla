---------------------------- MODULE AISuggestions ----------------------------
(* The review queue of AI suggestions.  A reviewer's request loads the        *)
(* suggestion, checks its status, assigns and commits; other reviewers' re-   *)
(* quests may commit in between, and the last commit wins.                    *)
CONSTANTS
    Suggestions,    \* suggestions
    Reviewers       \* threads serving review requests

VARIABLES
    suggestion,     \* the status of each AISuggestion row
    proposal,       \* whether its data are the AI's or a reviewer's
    review,         \* what each reviewer's request is about to commit
    contested,      \* history: suggestions two requests reviewed at the same time
    endorsed        \* history: suggestions whose approval was committed once

suggestionVars == <<suggestion, proposal, review, contested, endorsed>>

Verdicts == {"approved", "rejected", "modified", "applied"}
SUGGESTION_STATUSES == {"pending"} \cup Verdicts

NoSuggestion == "none"
NoReview == [verdict |-> "none"]
Reviewing(s) == {r \in Reviewers : review[r].verdict # "none" /\ review[r].of = s}

SuggestionsInit ==
    /\ suggestion = [s \in Suggestions |-> NoSuggestion]
    /\ proposal = [s \in Suggestions |-> "ai"]
    /\ review = [r \in Reviewers |-> NoReview]
    /\ contested = {}
    /\ endorsed = {}

CreateSuggestion(s) ==
    /\ suggestion[s] = NoSuggestion
    /\ suggestion' = [suggestion EXCEPT ![s] = "pending"]
    /\ UNCHANGED <<proposal, review, contested, endorsed>>

\* Mutant: an approval is only refused to what was applied already.
Reconsidered(verdict) ==
    IF verdict = "applied" THEN {"approved", "modified"} ELSE {"pending", "rejected"}

ReviewedFrom(verdict) ==
    IF verdict = "applied" THEN {"approved", "modified"} ELSE {"pending"}

\* The load and the check of approve, reject, modify_and_approve, mark_applied.
Review(r, s, verdict) ==
    /\ review[r] = NoReview
    /\ suggestion[s] \in ReviewedFrom(verdict)
    /\ review' = [review EXCEPT ![r] = [verdict |-> verdict, of |-> s]]
    /\ contested' = IF Reviewing(s) = {} THEN contested ELSE contested \cup {s}
    /\ UNCHANGED <<suggestion, proposal, endorsed>>

CommitReview(r) ==
    LET s == review[r].of
        verdict == review[r].verdict
    IN  /\ review[r] # NoReview
        /\ suggestion' = [suggestion EXCEPT ![s] = verdict]
        /\ proposal' = [proposal EXCEPT ![s] = IF verdict = "modified" THEN "reviewer" ELSE @]
        /\ endorsed' = IF verdict \in {"approved", "modified"} THEN endorsed \cup {s} ELSE endorsed
        /\ review' = [review EXCEPT ![r] = NoReview]
        /\ UNCHANGED contested

SuggestionsNext ==
    \/ \E s \in Suggestions : CreateSuggestion(s)
    \/ \E r \in Reviewers : CommitReview(r)
    \/ \E r \in Reviewers, s \in Suggestions, v \in Verdicts : Review(r, s, v)

SuggestionsSpec == SuggestionsInit /\ [][SuggestionsNext]_suggestionVars

------------------------------------------------------------------------------
(* Properties                                                                 *)

SuggestionsTypeOK ==
    /\ suggestion \in [Suggestions -> SUGGESTION_STATUSES \cup {NoSuggestion}]
    /\ proposal \in [Suggestions -> {"ai", "reviewer"}]
    /\ review \in [Reviewers -> {NoReview} \cup [verdict : Verdicts, of : Suggestions]]
    /\ contested \subseteq Suggestions
    /\ endorsed \subseteq Suggestions

\* "pending -> approved/rejected/modified -> applied": a suggestion that no two
\* requests review at the same time keeps its first verdict until it is applied.
SuggestionVerdictStands ==
    [][\A s \in Suggestions \ contested' :
          /\ suggestion[s] \in {"rejected", "applied"} => suggestion'[s] = suggestion[s]
          /\ suggestion[s] \in {"approved", "modified"} =>
                 suggestion'[s] \in {suggestion[s], "applied"}]_suggestionVars

\* However reviewers interleave, nothing is applied that nobody approved, and a
\* suggestion is only called modified when its data are the reviewer's.
AppliedWasEndorsed ==
    \A s \in Suggestions :
        /\ suggestion[s] = "applied" => s \in endorsed
        /\ suggestion[s] = "modified" => proposal[s] = "reviewer"
==============================================================================
