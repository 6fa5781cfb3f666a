--------------------------- MODULE MCAuthSessions ---------------------------
EXTENDS AuthSessions, TLC

Interchangeable == Permutations(Clients)

\* Bound: at most two of these happen in one behaviour: wrong passwords, wrong
\* codes, a lapse, a second code, a suspension, a rotation, a new password.
Concerns ==
  {<<"failures", cred.failures # 0 \/ cred.locked>>,
   <<"attempts", \E i \in DOMAIN codes : codes[i].attempts # 0>>,
   <<"lapse", \E i \in DOMAIN codes : codes[i].lapsed \/ "lapsed" \in {codes[i].reset, codes[i].continuation}>>,
   <<"renewal", Len(codes) > 1>>,
   <<"suspension", user.suspensions # 0>>,
   <<"rotation", \E t \in DOMAIN tokens : tokens[t].from # 0>>,
   <<"password", cred.password > 1>>}
FewConcerns == Cardinality({x \in Concerns : x[2]}) <= 2
=============================================================================
