--------------------------- MODULE TicketLifeCycle ---------------------------
(***************************************************************************)
(* What the life cycle of a ticket promises, without saying who runs it: a *)
(* ticket is decided at most once, it reaches execution only through a     *)
(* decision (a reviewer's, or a rule that waives the review), and the end  *)
(* states stay.  The moves are those of the transition table of the        *)
(* program, with two that the table leaves out: a ticket whose items could *)
(* not be stored is deleted, and granted access can be revoked.            *)
(***************************************************************************)
VARIABLES stage, decision

Stages == {"none", "pending_review", "needs_admin_attention", "approved", "rejected",
           "withdrawn", "pending_execution", "executing", "stopped", "deleted"}

\* The part of the transition table up to the start of the execution.
AllowedTransitions ==
    {<<"pending_review", "approved">>, <<"pending_review", "rejected">>,
     <<"pending_review", "withdrawn">>, <<"pending_review", "needs_admin_attention">>,
     <<"needs_admin_attention", "pending_review">>, <<"needs_admin_attention", "approved">>,
     <<"approved", "pending_execution">>, <<"approved", "rejected">>,
     <<"pending_execution", "rejected">>, <<"pending_execution", "executing">>,
     <<"pending_execution", "stopped">>}

LifeInit == stage = "none" /\ decision = "open"

Submit == stage = "none" /\ stage' = "pending_review" /\ decision' = "open"

\* Before its creation is complete a ticket can already be decided, and revoked.
Discard ==
    /\ stage \in {"pending_review", "approved", "rejected", "withdrawn", "stopped"}
    /\ decision # "waived"
    /\ stage' = "deleted" /\ decision' = "open"

\* Approval decides; everything else on the table keeps the decision or refuses.
Move ==
    /\ <<stage, stage'>> \in AllowedTransitions
    /\ CASE stage' = "approved"                 -> decision = "open" /\ decision' \in {"reviewed", "waived"}
         [] stage' \in {"rejected", "withdrawn"} -> decision' = "refused"
         [] stage' \in {"pending_review", "needs_admin_attention"} -> decision = "open" /\ decision' = "open"
         [] OTHER                               -> decision \in {"reviewed", "waived"} /\ decision' = decision

Revoke == stage = "approved" /\ stage' = "stopped" /\ decision' = decision

LifeNext == Submit \/ Discard \/ Move \/ Revoke

LifeSpec == LifeInit /\ [][LifeNext]_<<stage, decision>>
=============================================================================
