----------------------------- MODULE MCIdentity -----------------------------
\* Enough draws for one agent with two enrollment tokens, both of them tried,
\* for two agents with a token each and one redemption, or for an enrolled
\* agent and a writer; time for every token to expire.  An identity is given one
\* subtree or nothing.
EXTENDS AgentAccess

Subtree == <<"a", "/", "*">>
MCRules == {Subtree}
MCProbes ==
  {<<"a">>, <<"a", "/", "b">>, <<"a", "/", "b", "/", "a">>, <<"a", "b", "/", "a">>,
   <<"a", "/", ".", ".", "/", "b">>, <<"a", "/">>}

Alphabet == {"a", ".", "/", "*"}
Strings == UNION {[1..n -> Alphabet] : n \in 1..5}

\* The code's comparison of strings and the meaning of a rule in terms of
\* components agree on every string of up to five characters and every rule
\* that ValidateRules accepts.
ASSUME RulesMeanComponents ==
  LET paths == {p \in Strings : Normal(p)}
      rules == {r \in Strings : ValidRule(r)}
  IN  \A p \in paths, r \in rules : Matches(p, r) <=> Grants(r, p)
=============================================================================
