---------------------------- MODULE MCManagement ----------------------------
(* Instances of Management for TLC. *)
EXTENDS Management, TLC

CONSTANTS Ann, Bob

RemoteRule(id, status, content) == [id |-> id, status |-> status, content |-> content]

\* Ann has a rule that is valid or not; Bob nothing, or the same one twice and one with
\* the primary id.
MCRemote ==
    (Ann :> { << RemoteRule("a", s, "new") >> : s \in {"valid", "invalid"} })
      @@ (Bob :> { <<>>, << RemoteRule("a", "invalid", "new"), RemoteRule("p", "valid", "new"),
                         RemoteRule("a", "valid", "new") >> })

Symmetric == Permutations(Requests) \cup Permutations(Clients) \cup Permutations(Tokens)

MCConfigured == {<<>>, <<Ann, Bob>>, ALL}

MCAuthorLists == {<<Bob>>, <<Bob, Ann>>}
=============================================================================
