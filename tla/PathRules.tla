----------------------------- MODULE PathRules -----------------------------
(***************************************************************************)
(* Secret paths and the rules that grant them: Normalize, ValidateRules    *)
(* and Allowed of package security.  A string is the sequence of its       *)
(* characters, and a character is a string of length one.  The limit of    *)
(* 512 bytes plays no part in what a rule means and is left out.           *)
(***************************************************************************)
EXTENDS Naturals, Sequences, FiniteSets

\* Characters that are refused wherever they stand; "ctl" is any control
\* character.
Forbidden == {"\\", "%", "*", "?", "ctl"}

HasPrefix(s, prefix) == Len(prefix) <= Len(s) /\ SubSeq(s, 1, Len(prefix)) = prefix

HasSuffix(s, suffix) ==
  Len(suffix) <= Len(s) /\ SubSeq(s, Len(s) - Len(suffix) + 1, Len(s)) = suffix

TrimSuffix(s, suffix) ==
  IF HasSuffix(s, suffix) THEN SubSeq(s, 1, Len(s) - Len(suffix)) ELSE s

\* Positions where a component begins, and where the one before has ended.
Starts(s) == {1} \cup {i + 1 : i \in {j \in 1..Len(s) : s[j] = "/"}}

\* The component that begins at i: up to the next slash or the end.
Component(s, i) ==
  SubSeq(s, i, CHOOSE e \in (i - 1)..Len(s) :
                 /\ \A j \in i..e : s[j] # "/"
                 /\ e = Len(s) \/ s[e + 1] = "/")

\* strings.Split(s, "/"), as a set.
Components(s) == {Component(s, i) : i \in Starts(s)}

\* Normalize returns no error (it never changes a path).
Normal(p) ==
  /\ p # <<>>
  /\ p[1] # " " /\ p[Len(p)] # " "
  /\ p[1] # "/"
  /\ \A i \in 1..Len(p) : p[i] \notin Forbidden
  /\ \A c \in Components(p) : c \notin {<<>>, <<".">>, <<".", ".">>}

\* ValidateRules accepts the rule.
ValidRule(r) == Normal(TrimSuffix(r, <<"/", "*">>))

\* One turn of the loop in Allowed.
Matches(p, rule) ==
  IF HasSuffix(rule, <<"/", "*">>) THEN HasPrefix(p, TrimSuffix(rule, <<"*">>)) ELSE p = rule

\* Mutant: the slash is trimmed with the star.
AllowedNoBoundary(path, rules) ==
  /\ Normal(path)
  /\ \E rule \in rules : path = rule \/ HasPrefix(path, TrimSuffix(rule, <<"/", "*">>))

\* Default-deny: some rule must match.
Allowed(path, rules) == Normal(path) /\ \E rule \in rules : Matches(path, rule)

(***************************************************************************)
(* The reference: what a rule is said to grant, in terms of components     *)
(* (setup.md: "An exact rule grants that one secret; a terminal /* grants  *)
(* descendants, including deeper paths").                                  *)
(***************************************************************************)

\* The components of s in order.
Split(s) ==
  LET Nth(n) == CHOOSE i \in Starts(s) : Cardinality({j \in Starts(s) : j < i}) = n - 1
  IN  [n \in 1..Cardinality(Starts(s)) |-> Component(s, Nth(n))]

\* The last component of the rule is a star and the others are the first ones
\* of the path, which has more of them; or rule and path are the same.
Grants(rule, p) ==
  LET r == Split(rule)
      c == Split(p)
      n == Len(r) - 1
  IN  IF r[Len(r)] = <<"*">>
        THEN Len(c) > n /\ SubSeq(c, 1, n) = SubSeq(r, 1, n)
        ELSE c = r
=============================================================================
