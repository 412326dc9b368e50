--------------------------- MODULE MCSubscriptions ---------------------------
(***************************************************************************)
(* Subscriptions for TLC: an agent that is updated and one that is         *)
(* deleted, and criteria that match the first, or only the second.         *)
(***************************************************************************)
EXTENDS Subscriptions

Filter(type, state, capabilities, match, filters) ==
  [type |-> type, state |-> state, capabilities |-> capabilities, match |-> match,
   metadata_filters |-> filters]

MCCriteria == {Filter({}, {}, {"c1", "c2"}, "any", {<<"k", "v">>}),
               Filter({"t1"}, {"STABLE"}, {}, "exact", {})}

Agent == [type |-> "t1", capabilities |-> {"c1"}, metadata |-> {{<<"k", "v">>}}]

MCKinds == {[kind |-> "agent_updated", data |-> {Agent}],
            [kind |-> "agent_deleted", data |-> {}],
            [kind |-> "invalid", data |-> {}]}
=============================================================================
