---------------------------- MODULE MCScopeValues ----------------------------
(* Model checking ScopeValues: every scope parameter of one or two values  *)
(* of at most three segments.                                              *)
EXTENDS ScopeValues

MCPieces        == {"auth_session", "2", "AC", "7E", "B01F", "DPoPApiDefaultScope"}
MCAuthSessions  == {<<"AC", "7E">>, <<"B01F">>}
MCAllowedScopes == {<<"DPoPApiDefaultScope">>, Name}

MCSegments == {<<>>, Name, <<"auth_session", "2">>, <<"AC", "7E">>, <<"B01F">>, <<"7E">>,
               <<"AC", "auth_session">>, <<"AC", "7E", "auth_session">>,
               <<"DPoPApiDefaultScope">>}
MCValues == UNION {[1 .. n -> MCSegments] : n \in 1 .. 3}

\* The form is split at spaces: a single segment is never empty.
MCScopeParameters ==
  {<<v>> : v \in MCValues} \cup
  {<<v, w>> : v \in {x \in MCValues : Len(x) <= 2 /\ x # <<<<>>>>}, w \in MCValues \ {<<<<>>>>}}
=============================================================================
