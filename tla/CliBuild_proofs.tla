-------------------------- MODULE CliBuild_proofs --------------------------
(***************************************************************************)
(* The calls with which a program defines its apps and options keep the    *)
(* definition well-formed, so that what the runs find of small programs    *)
(* holds of every one.                                                     *)
(***************************************************************************)
EXTENDS CliBuild, Sums_proofs, SequenceTheorems

(***************************************************************************)
(* What is appended to a sequence without repetitions, and was not in it,  *)
(* is in it, at the end, and once.                                         *)
(***************************************************************************)
LEMMA Appended ==
  ASSUME NEW S, NEW s \in Seq(S), NEW e \in S, IsInjective(s), e \notin Range(s)
  PROVE  /\ Append(s, e) \in Seq(S)
         /\ IsInjective(Append(s, e))
         /\ Range(Append(s, e)) = Range(s) \cup {e}
         /\ Last(Append(s, e)) = e
<1> DEFINE t == Append(s, e)
<1>1. /\ t \in Seq(S) /\ Len(t) = Len(s) + 1 /\ DOMAIN t = 1 .. Len(s) + 1
      /\ \A i \in 1 .. Len(s) : t[i] = s[i]
      /\ t[Len(s) + 1] = e
  OBVIOUS
<1>2. DOMAIN s = 1 .. Len(s) /\ Len(s) \in Nat
  OBVIOUS
<1> HIDE DEF t
<1>3. \A i \in 1 .. Len(s) + 1 : i \in 1 .. Len(s) \/ i = Len(s) + 1
  BY <1>2
<1>4. Range(t) = Range(s) \cup {e}
  BY <1>1, <1>2, <1>3 DEF Range
<1>5. IsInjective(t)
  BY <1>1, <1>2, <1>3 DEF IsInjective, Range
<1>6. Last(t) = e
  BY <1>1 DEF Last
<1> QED
  BY <1>1, <1>4, <1>5, <1>6 DEF t

(***************************************************************************)
(* Where an element is first found (std::find), it is.                     *)
(***************************************************************************)
LEMMA Position ==
  ASSUME NEW S, NEW s \in Seq(S), NEW e \in Range(s)
  PROVE  LET k == SelectInSeq(s, LAMBDA v : v = e) IN k \in 1 .. Len(s) /\ s[k] = e
<1> DEFINE I == {i \in 1 .. Len(s) : s[i] = e}
<1>1. I # {} /\ I \in SUBSET Nat
  BY DEF Range
<1>2. PICK k \in I : \A m \in I : k <= m
  <2> HIDE DEF I
  <2> QED
    BY <1>1, LeastNumber
<1>3. Min(I) \in I
  BY <1>2 DEF Min
<1> QED
  BY <1>1, <1>3 DEF SelectInSeq

(***************************************************************************)
(* What a sequence is without the first element of that value (erase).     *)
(***************************************************************************)
IsWithout(r, s, e, k) ==
  /\ k \in 1 .. Len(s) /\ s[k] = e
  /\ Len(r) = Len(s) - 1 /\ DOMAIN r = 1 .. Len(s) - 1
  /\ \A i \in 1 .. Len(s) - 1 : r[i] = IF i < k THEN s[i] ELSE s[i + 1]

(***************************************************************************)
(* That is what RemoveFirst makes of it.                                   *)
(***************************************************************************)
LEMMA ElementsLeft ==
  ASSUME NEW S, NEW s \in Seq(S), NEW e \in Range(s)
  PROVE  \E k : /\ RemoveFirst(s, e) \in Seq(S)
                /\ IsWithout(RemoveFirst(s, e), s, e, k)
<1> DEFINE k == SelectInSeq(s, LAMBDA v : v = e)
           p == SubSeq(s, 1, k - 1)
           q == SubSeq(s, k + 1, Len(s))
           r == p \o q
<1>1. k \in 1 .. Len(s) /\ s[k] = e
  BY Position
<1>2. RemoveFirst(s, e) = r
  <2>1. \E i \in 1 .. Len(s) : s[i] = e
    <3> HIDE DEF k
    <3> QED
      BY <1>1
  <2> QED
    BY <2>1 DEF RemoveFirst, RemoveAt
<1> HIDE DEF k
<1>3. /\ p \in Seq(S) /\ Len(p) = k - 1 /\ \A i \in 1 .. k - 1 : p[i] = s[i]
      /\ q \in Seq(S) /\ Len(q) = Len(s) - k /\ \A i \in 1 .. Len(s) - k : q[i] = s[k + i]
  <2>1. \A i \in 1 .. Len(s) : s[i] \in S
    OBVIOUS
  <2>2. k \in Int /\ Len(s) \in Nat /\ 1 <= k /\ k <= Len(s)
    BY <1>1
  <2>3. \A i \in 1 .. k - 1 : s[i] \in S
    BY <2>1, <2>2
  <2>4. p \in Seq(S) /\ Len(p) = k - 1 /\ \A i \in 1 .. k - 1 : p[i] = s[i]
    BY <2>2, <2>3, SubSeqProperties, Z3
  <2>5. \A i \in k + 1 .. Len(s) : s[i] \in S
    BY <2>1, <2>2
  <2>6. /\ q \in Seq(S)
        /\ Len(q) = IF k + 1 <= Len(s) THEN Len(s) - (k + 1) + 1 ELSE 0
        /\ \A i \in 1 .. Len(s) - (k + 1) + 1 : q[i] = s[k + 1 + i - 1]
    <3> HIDE DEF q
    <3>1. k + 1 \in Int /\ Len(s) \in Int
      BY <2>2
    <3> QED
      BY <3>1, <2>5, SubSeqProperties DEF q
  <2>7. \A i \in 1 .. Len(s) - k : k + 1 + i - 1 = k + i
    BY <2>2
  <2> HIDE DEF p, q
  <2> QED
    BY <2>2, <2>4, <2>6, <2>7
<1> HIDE DEF p, q
<1>4. /\ r \in Seq(S) /\ Len(r) = Len(s) - 1 /\ DOMAIN r = 1 .. Len(s) - 1
      /\ \A i \in 1 .. Len(s) - 1 : r[i] = IF i < k THEN s[i] ELSE s[i + 1]
  <2>1. /\ r \in Seq(S) /\ Len(r) = Len(p) + Len(q)
        /\ \A i \in 1 .. Len(p) + Len(q) : r[i] = IF i <= Len(p) THEN p[i] ELSE q[i - Len(p)]
    BY <1>3, ConcatProperties
  <2> HIDE DEF r
  <2>2. Len(r) = Len(s) - 1
    BY <1>1, <1>3, <2>1
  <2>3. DOMAIN r = 1 .. Len(s) - 1
    BY <2>1, <2>2
  <2>4. ASSUME NEW i \in 1 .. Len(s) - 1
        PROVE  r[i] = IF i < k THEN s[i] ELSE s[i + 1]
    <3>1. r[i] = IF i <= Len(p) THEN p[i] ELSE q[i - Len(p)]
      BY <1>1, <1>3, <2>1
    <3>2. CASE i < k
      <4>1. i \in 1 .. k - 1 /\ i <= Len(p) /\ p[i] = s[i]
        BY <1>1, <1>3, <3>2
      <4> QED
        BY <3>1, <3>2, <4>1
    <3>3. CASE ~(i < k)
      <4>1. i - Len(p) \in 1 .. Len(s) - k /\ k + (i - Len(p)) = i + 1
        BY <1>1, <1>3, <3>3
      <4> QED
        BY <1>1, <1>3, <3>1, <3>3, <4>1
    <3> QED
      BY <3>2, <3>3
  <2> QED
    BY <2>1, <2>2, <2>3, <2>4
<1> HIDE DEF r
<1>5. IsWithout(r, s, e, k)
  BY <1>1, <1>4 DEF IsWithout
<1> QED
  BY <1>2, <1>4, <1>5

(***************************************************************************)
(* Removing an element of a sequence without repetitions (erase) leaves    *)
(* the others, once each and in their order.                               *)
(***************************************************************************)
LEMMA Removed ==
  ASSUME NEW S, NEW s \in Seq(S), NEW e, IsInjective(s)
  PROVE  /\ RemoveFirst(s, e) \in Seq(S)
         /\ IsInjective(RemoveFirst(s, e))
         /\ Range(RemoveFirst(s, e)) = Range(s) \ {e}
<1>1. CASE e \notin Range(s)
  <2>1. ~\E i \in 1 .. Len(s) : s[i] = e
    BY <1>1 DEF Range
  <2> QED
    BY <1>1, <2>1 DEF RemoveFirst
<1>2. CASE e \in Range(s)
  <2>1. PICK k : /\ RemoveFirst(s, e) \in Seq(S)
                 /\ IsWithout(RemoveFirst(s, e), s, e, k)
    BY <1>2, ElementsLeft
  <2> DEFINE r == RemoveFirst(s, e)
  <2>2. /\ k \in 1 .. Len(s) /\ s[k] = e
        /\ r \in Seq(S) /\ Len(r) = Len(s) - 1 /\ DOMAIN r = 1 .. Len(s) - 1
        /\ \A i \in 1 .. Len(s) - 1 : r[i] = IF i < k THEN s[i] ELSE s[i + 1]
    BY <2>1 DEF IsWithout
  <2> HIDE DEF r
  <2>3. IsInjective(r)
    <3> DEFINE from(i) == IF i < k THEN i ELSE i + 1
    <3>1. \A i \in DOMAIN r : from(i) \in 1 .. Len(s) /\ r[i] = s[from(i)]
      BY <2>2
    <3>2. \A i, j \in DOMAIN r : from(i) = from(j) => i = j
      BY <2>2
    <3>3. \A i, j \in 1 .. Len(s) : s[i] = s[j] => i = j
      BY DEF IsInjective
    <3> HIDE DEF from
    <3> QED
      BY <3>1, <3>2, <3>3 DEF IsInjective
  <2>4. \A i \in 1 .. Len(s) : i # k => s[i] \in Range(r) /\ s[i] # e
    <3> SUFFICES ASSUME NEW i \in 1 .. Len(s), i # k
                 PROVE  s[i] \in Range(r) /\ s[i] # e
      OBVIOUS
    <3>1. s[i] # e
      BY <2>2 DEF IsInjective
    <3>2. CASE i < k
      <4>1. i \in 1 .. Len(s) - 1 /\ r[i] = s[i]
        BY <2>2, <3>2
      <4> QED
        BY <2>2, <3>1, <4>1 DEF Range
    <3>3. CASE i > k
      <4>1. i - 1 \in 1 .. Len(s) - 1 /\ r[i - 1] = s[i]
        BY <2>2, <3>3
      <4> QED
        BY <2>2, <3>1, <4>1 DEF Range
    <3> QED
      BY <2>2, <3>2, <3>3
  <2>5. \A i \in 1 .. Len(s) - 1 : \E j \in 1 .. Len(s) : j # k /\ r[i] = s[j]
    <3> TAKE i \in 1 .. Len(s) - 1
    <3>1. CASE i < k
      BY <2>2, <3>1
    <3>2. CASE ~(i < k)
      <4>1. i + 1 \in 1 .. Len(s) /\ i + 1 # k
        BY <2>2, <3>2
      <4> QED
        BY <2>2, <3>2, <4>1
    <3> QED
      BY <3>1, <3>2
  <2>6. Range(r) = Range(s) \ {e}
    <3>1. DOMAIN s = 1 .. Len(s)
      OBVIOUS
    <3>2. Range(r) \subseteq Range(s) \ {e}
      <4> SUFFICES ASSUME NEW i \in 1 .. Len(s) - 1
                   PROVE  r[i] \in Range(s) \ {e}
        BY <2>2 DEF Range
      <4>1. PICK j \in 1 .. Len(s) : j # k /\ r[i] = s[j]
        BY <2>5
      <4>2. s[j] # e
        BY <2>4, <4>1
      <4>3. s[j] \in Range(s)
        BY <3>1 DEF Range
      <4> QED
        BY <4>1, <4>2, <4>3
    <3>3. Range(s) \ {e} \subseteq Range(r)
      <4> SUFFICES ASSUME NEW x \in Range(s), x # e
                   PROVE  x \in Range(r)
        OBVIOUS
      <4>1. PICK i \in 1 .. Len(s) : s[i] = x
        BY <3>1 DEF Range
      <4>2. i # k
        BY <2>2, <4>1
      <4> QED
        BY <2>4, <4>1, <4>2
    <3> QED
      BY <3>2, <3>3
  <2> QED
    BY <2>2, <2>3, <2>6 DEF r
<1> QED
  BY <1>1, <1>2

(***************************************************************************)
(* What was appended and is removed again leaves the sequence as it was.   *)
(***************************************************************************)
LEMMA RemovedAgain ==
  ASSUME NEW S, NEW s \in Seq(S), NEW e, e \notin Range(s)
  PROVE  RemoveFirst(Append(s, e), e) = s
<1> DEFINE t == Append(s, e)
           r == RemoveFirst(t, e)
<1>1. /\ t \in Seq(S \cup {e}) /\ Len(t) = Len(s) + 1 /\ DOMAIN t = 1 .. Len(s) + 1
      /\ t[Len(s) + 1] = e
      /\ Len(s) \in Nat /\ DOMAIN s = 1 .. Len(s)
      /\ \A i \in 1 .. Len(s) : t[i] = s[i]
  OBVIOUS
<1> HIDE DEF t
<1>2. e \in Range(t)
  BY <1>1 DEF Range
<1>3. PICK k : r \in Seq(S \cup {e}) /\ IsWithout(r, t, e, k)
  BY <1>1, <1>2, ElementsLeft
<1>4. k = Len(s) + 1
  BY <1>1, <1>3 DEF IsWithout, Range
<1> HIDE DEF r
<1>5. Len(r) = Len(s) /\ \A i \in 1 .. Len(s) : r[i] = s[i]
  BY <1>1, <1>3, <1>4 DEF IsWithout
<1>6. s \in Seq(S \cup {e})
  BY <1>1
<1> QED
  BY <1>1, <1>3, <1>5, <1>6, SeqEqual DEF r, t
-----------------------------------------------------------------------------
(***************************************************************************)
(* What an app has below it: the smallest set with the app in it that has, *)
(* with an app, its subcommands, too.                                      *)
(***************************************************************************)
Subs(d, a) == Range(d.apps[a].subs)

Closed(d, S) == \A b \in S : Subs(d, b) \subseteq S

Reach(d, a) ==
  {b \in DOMAIN d.apps : \A S \in SUBSET DOMAIN d.apps : a \in S /\ Closed(d, S) => b \in S}

IsBelow(f, d) ==
  f = [b \in DOMAIN d.apps |-> {b} \cup UNION {f[sub] : sub \in Subs(d, b)}]

(***************************************************************************)
(* The recursion over the subcommands, as a function that is its own       *)
(* unfolding.                                                              *)
(***************************************************************************)
LEMMA BelowIs ==
  ASSUME NEW d, NEW a
  PROVE  Below(d, a) = (CHOOSE f : IsBelow(f, d))[a]
BY DEF Below, IsBelow, Subs

(***************************************************************************)
(* The subcommands of an app are apps.                                     *)
(***************************************************************************)
LEMMA SubsAreApps ==
  ASSUME NEW d, Shaped(d), NEW a \in DOMAIN d.apps
  PROVE  Subs(d, a) \subseteq DOMAIN d.apps
<1>1. d.apps[a].subs \in Seq(DOMAIN d.apps)
  BY DEF Shaped
<1> DEFINE s == d.apps[a].subs
<1> HIDE DEF s
<1>2. \A i \in DOMAIN s : s[i] \in DOMAIN d.apps
  BY <1>1 DEF s
<1> QED
  BY <1>2 DEF Subs, Range, s

(***************************************************************************)
(* Reach is that smallest set.                                             *)
(***************************************************************************)
LEMMA ReachFacts ==
  ASSUME NEW d, Shaped(d), NEW a \in DOMAIN d.apps
  PROVE  /\ a \in Reach(d, a)
         /\ Reach(d, a) \subseteq DOMAIN d.apps
         /\ Closed(d, Reach(d, a))
         /\ \A S \in SUBSET DOMAIN d.apps : a \in S /\ Closed(d, S) => Reach(d, a) \subseteq S
<1>1. Closed(d, Reach(d, a))
  BY SubsAreApps DEF Closed, Reach
<1> QED
  BY <1>1 DEF Reach

(***************************************************************************)
(* It is the app and what can be reached from its subcommands.             *)
(***************************************************************************)
LEMMA ReachUnfolds ==
  ASSUME NEW d, Shaped(d), NEW a \in DOMAIN d.apps
  PROVE  Reach(d, a) = {a} \cup UNION {Reach(d, sub) : sub \in Subs(d, a)}
<1> DEFINE T == {a} \cup UNION {Reach(d, sub) : sub \in Subs(d, a)}
<1>1. \A sub \in Subs(d, a) : sub \in DOMAIN d.apps
  BY SubsAreApps
<1>2. T \subseteq Reach(d, a)
  <2> SUFFICES ASSUME NEW sub \in Subs(d, a)
               PROVE  Reach(d, sub) \subseteq Reach(d, a)
    BY ReachFacts
  <2>1. sub \in Reach(d, a)
    BY ReachFacts DEF Closed
  <2> QED
    BY <1>1, <2>1, ReachFacts
<1>3. Reach(d, a) \subseteq T
  <2>1. a \in T
    OBVIOUS
  <2>2. T \subseteq DOMAIN d.apps
    BY <1>1, ReachFacts
  <2>3. Closed(d, T)
    <3> SUFFICES ASSUME NEW b \in T
                 PROVE  Subs(d, b) \subseteq T
      BY DEF Closed
    <3>1. CASE b = a
      BY <1>1, <3>1, ReachFacts
    <3>2. CASE b # a
      <4>1. PICK sub \in Subs(d, a) : b \in Reach(d, sub)
        BY <3>2
      <4>2. Subs(d, b) \subseteq Reach(d, sub)
        BY <1>1, <4>1, ReachFacts DEF Closed
      <4> QED
        BY <4>2
    <3> QED
      BY <3>1, <3>2
  <2> HIDE DEF T
  <2> QED
    BY <2>1, <2>2, <2>3, ReachFacts
<1> QED
  BY <1>2, <1>3

(***************************************************************************)
(* Where no app is below itself there is only one function that is its own *)
(* unfolding: so what the recursion finds below an app is what can be      *)
(* reached from it, without any induction over the apps.                   *)
(***************************************************************************)
LEMMA BelowIsReach ==
  ASSUME NEW d, Shaped(d), NoCycle(d), NEW a \in DOMAIN d.apps
  PROVE  Below(d, a) = Reach(d, a)
<1> DEFINE f == CHOOSE g : IsBelow(g, d)
           h == [b \in DOMAIN d.apps |-> Reach(d, b)]
           S == {b \in DOMAIN d.apps : f[b] # Reach(d, b)}
<1>1. IsBelow(h, d)
  <2>1. ASSUME NEW b \in DOMAIN d.apps
        PROVE  h[b] = {b} \cup UNION {h[sub] : sub \in Subs(d, b)}
    <3>1. {h[sub] : sub \in Subs(d, b)} = {Reach(d, sub) : sub \in Subs(d, b)}
      BY SubsAreApps
    <3> QED
      BY <3>1, ReachUnfolds
  <2> QED
    BY <2>1 DEF IsBelow
<1>2. IsBelow(f, d)
  <2> HIDE DEF h
  <2> QED
    BY <1>1
<1>3. S = {}
  <2> SUFFICES ASSUME S # {} PROVE FALSE
    OBVIOUS
  <2>1. PICK b \in S : Subs(d, b) \cap S = {}
    BY DEF NoCycle, Subs
  <2> HIDE DEF f
  <2>2. f[b] = {b} \cup UNION {f[sub] : sub \in Subs(d, b)}
    BY <1>2 DEF IsBelow
  <2>3. {f[sub] : sub \in Subs(d, b)} = {Reach(d, sub) : sub \in Subs(d, b)}
    BY <2>1, SubsAreApps
  <2> QED
    BY <2>1, <2>2, <2>3, ReachUnfolds
<1>4. Below(d, a) = f[a]
  BY BelowIs
<1> QED
  <2> HIDE DEF f
  <2> QED
    BY <1>3, <1>4

(***************************************************************************)
(* All that is needed of Below from here on.                               *)
(***************************************************************************)
LEMMA BelowFacts ==
  ASSUME NEW d, Shaped(d), NoCycle(d), NEW a \in DOMAIN d.apps
  PROVE  /\ a \in Below(d, a)
         /\ Below(d, a) \subseteq DOMAIN d.apps
         /\ Closed(d, Below(d, a))
         /\ \A S \in SUBSET DOMAIN d.apps : a \in S /\ Closed(d, S) => Below(d, a) \subseteq S
BY BelowIsReach, ReachFacts
-----------------------------------------------------------------------------
(***************************************************************************)
(* Whatever changes neither where the options and subcommands are nor the  *)
(* help flags keeps the definition well-formed.                            *)
(***************************************************************************)
LEMMA SameStructure ==
  ASSUME NEW d, WellFormed(d), NEW e, Shaped(e), Symmetric(e), DOMAIN e.apps = DOMAIN d.apps,
         \A a \in DOMAIN d.apps :
           /\ e.apps[a].subs = d.apps[a].subs /\ e.apps[a].options = d.apps[a].options
           /\ e.apps[a].parent = d.apps[a].parent
           /\ e.apps[a].help = d.apps[a].help /\ e.apps[a].help_all = d.apps[a].help_all
  PROVE  WellFormed(e)
<1>1. \A a \in DOMAIN d.apps : Range(d.apps[a].subs) \subseteq DOMAIN d.apps
  BY SubsAreApps DEF Subs, WellFormed
<1>2. Placed(e)
  BY <1>1 DEF WellFormed, Placed, OwnOptions, Shaped
<1>3. NoCycle(e)
  BY DEF WellFormed, NoCycle
<1>4. \A a \in DOMAIN e.apps : HelpOwned(e, a)
  BY DEF WellFormed, HelpOwned, OwnOptions
<1> QED
  BY <1>2, <1>3, <1>4 DEF WellFormed

(***************************************************************************)
(* What an option is, of each of them.                                     *)
(***************************************************************************)
LEMMA OptionsAre ==
  ASSUME NEW d, Shaped(d), NEW o \in DOMAIN d.options
  PROVE  IsOption(d.options[o], DOMAIN d.options)
BY DEF Shaped, IsOption

(***************************************************************************)
(* Replacing one option by another value of it.                            *)
(***************************************************************************)
LEMMA SetFacts ==
  ASSUME NEW d, Shaped(d), NEW o \in DOMAIN d.options, NEW opt
  PROVE  LET e == Set(d, o, opt) IN
         /\ DOMAIN e = DOMAIN d /\ e.apps = d.apps /\ e.home = d.home
         /\ DOMAIN e.options = DOMAIN d.options
         /\ \A p \in DOMAIN d.options : e.options[p] = IF p = o THEN opt ELSE d.options[p]
BY DEF Set, Shaped

LEMMA SetWellFormed ==
  ASSUME NEW d, WellFormed(d), NEW o \in DOMAIN d.options, NEW opt, IsOption(opt, DOMAIN d.options)
  PROVE  WellFormed(Set(d, o, opt))
<1> DEFINE e == Set(d, o, opt)
<1>1. /\ DOMAIN e = DOMAIN d /\ e.apps = d.apps /\ e.home = d.home
      /\ DOMAIN e.options = DOMAIN d.options
      /\ \A p \in DOMAIN d.options : e.options[p] = IF p = o THEN opt ELSE d.options[p]
  BY SetFacts DEF WellFormed
<1> HIDE DEF e
<1>2. Shaped(e)
  BY <1>1 DEF WellFormed, Shaped, IsOption
<1>3. Symmetric(e)
  BY <1>1 DEF WellFormed, Symmetric
<1> QED
  BY <1>1, <1>2, <1>3, SameStructure DEF e

(* An app that is changed in nothing that ties it to others. *)
SameTies(app, other) ==
  /\ DOMAIN app = DOMAIN other
  /\ app.subs = other.subs /\ app.options = other.options /\ app.parent = other.parent
  /\ app.help = other.help /\ app.help_all = other.help_all
  /\ app.exclude_subs = other.exclude_subs

(***************************************************************************)
(* The definition with a changed app, and nothing else changed.            *)
(***************************************************************************)
OnlyApp(e, d, a, app) ==
  /\ WellFormed(e)
  /\ DOMAIN e.apps = DOMAIN d.apps /\ e.options = d.options /\ e.home = d.home
  /\ \A b \in DOMAIN d.apps : e.apps[b] = IF b = a THEN app ELSE d.apps[b]

LEMMA SetAppWellFormed ==
  ASSUME NEW d, WellFormed(d), NEW a \in DOMAIN d.apps, NEW app, SameTies(app, d.apps[a])
  PROVE  OnlyApp([d EXCEPT !.apps[a] = app], d, a, app)
<1> DEFINE e == [d EXCEPT !.apps[a] = app]
<1>1. /\ DOMAIN e = DOMAIN d /\ e.options = d.options /\ e.home = d.home
      /\ DOMAIN e.apps = DOMAIN d.apps
      /\ \A b \in DOMAIN d.apps : e.apps[b] = IF b = a THEN app ELSE d.apps[b]
  BY DEF WellFormed, Shaped
<1> HIDE DEF e
<1>2. \A b \in DOMAIN d.apps : SameTies(e.apps[b], d.apps[b])
  BY <1>1 DEF SameTies
<1>3. Shaped(e)
  BY <1>1, <1>2 DEF WellFormed, Shaped, SameTies
<1>4. Symmetric(e)
  BY <1>1, <1>2 DEF WellFormed, Symmetric, SameTies
<1>5. WellFormed(e)
  BY <1>1, <1>2, <1>3, <1>4, SameStructure DEF SameTies
<1> QED
  BY <1>1, <1>5 DEF OnlyApp, e
-----------------------------------------------------------------------------
(***************************************************************************)
(* What is changed by a new option in an app.                              *)
(***************************************************************************)
IsAdded(e, d, a, opt, o) ==
  /\ DOMAIN e = {"apps", "options", "home"}
  /\ DOMAIN e.apps = DOMAIN d.apps
  /\ \A b \in DOMAIN d.apps :
       /\ b # a => e.apps[b] = d.apps[b]
       /\ DOMAIN e.apps[b] = DOMAIN d.apps[b]
       /\ e.apps[b].options = IF b = a THEN Append(d.apps[b].options, o)
                                        ELSE d.apps[b].options
       /\ e.apps[b].subs = d.apps[b].subs /\ e.apps[b].parent = d.apps[b].parent
       /\ e.apps[b].help = d.apps[b].help /\ e.apps[b].help_all = d.apps[b].help_all
       /\ e.apps[b].exclude_subs = d.apps[b].exclude_subs
  /\ DOMAIN e.options = DOMAIN d.options \cup {o}
  /\ e.options[o] = opt /\ \A p \in DOMAIN d.options : e.options[p] = d.options[p]
  /\ e.home \in [DOMAIN d.options \cup {o} -> DOMAIN d.apps]
  /\ e.home[o] = a /\ \A p \in DOMAIN d.options : e.home[p] = d.home[p]

LEMMA AddedFacts ==
  ASSUME NEW d, Shaped(d), NEW a \in DOMAIN d.apps, NEW o, o \notin DOMAIN d.options, NEW opt
  PROVE  IsAdded(Added(d, a, opt, o), d, a, opt, o)
<1>1. DOMAIN d.home = DOMAIN d.options /\ \A p \in DOMAIN d.options : d.home[p] \in DOMAIN d.apps
  BY DEF Shaped
<1>2. \A b \in DOMAIN d.apps : DOMAIN d.apps[b] = DOMAIN DefaultApp
  BY DEF Shaped
<1> QED
  BY <1>1, <1>2 DEF IsAdded, Added, Extend, DefaultApp

(***************************************************************************)
(* A new option is the last of its app, and in no other app.               *)
(***************************************************************************)
LEMMA AddedWellFormed ==
  ASSUME NEW d, WellFormed(d), NEW a \in DOMAIN d.apps,
         NEW o \in OptionIds, o \notin DOMAIN d.options, NEW opt, IsOption(opt, DOMAIN d.options)
  PROVE  /\ WellFormed(Added(d, a, opt, o))
         /\ o \in OwnOptions(Added(d, a, opt, o), a)
         /\ Newest(Added(d, a, opt, o), a) = o
<1> DEFINE e == Added(d, a, opt, o)
           own == d.apps[a].options
<1>1. IsAdded(e, d, a, opt, o)
  BY AddedFacts DEF WellFormed
<1>2. /\ DOMAIN e = {"apps", "options", "home"}
      /\ DOMAIN e.apps = DOMAIN d.apps
      /\ DOMAIN e.options = DOMAIN d.options \cup {o}
      /\ e.options[o] = opt /\ \A p \in DOMAIN d.options : e.options[p] = d.options[p]
      /\ e.home \in [DOMAIN d.options \cup {o} -> DOMAIN d.apps]
  BY <1>1 DEF IsAdded
<1>3. \A b \in DOMAIN d.apps :
        /\ DOMAIN e.apps[b] = DOMAIN d.apps[b]
        /\ e.apps[b].options = IF b = a THEN Append(d.apps[b].options, o) ELSE d.apps[b].options
        /\ e.apps[b].subs = d.apps[b].subs /\ e.apps[b].parent = d.apps[b].parent
        /\ e.apps[b].help = d.apps[b].help /\ e.apps[b].help_all = d.apps[b].help_all
        /\ e.apps[b].exclude_subs = d.apps[b].exclude_subs
  BY <1>1 DEF IsAdded
<1>4. own \in Seq(DOMAIN d.options) /\ IsInjective(own) /\ o \notin Range(own)
  <2>1. own \in Seq(DOMAIN d.options) /\ IsInjective(own)
    BY DEF WellFormed, Shaped, Placed
  <2>2. \A i \in DOMAIN own : own[i] \in DOMAIN d.options
    <3> HIDE DEF own
    <3> QED
      BY <2>1
  <2> QED
    BY <2>1, <2>2 DEF Range
<1>5. /\ Append(own, o) \in Seq(DOMAIN d.options \cup {o}) /\ IsInjective(Append(own, o))
      /\ Range(Append(own, o)) = Range(own) \cup {o} /\ Last(Append(own, o)) = o
  <2>1. own \in Seq(DOMAIN d.options \cup {o})
    <3> HIDE DEF own
    <3> QED
      BY <1>4
  <2> HIDE DEF own
  <2> QED
    BY <1>4, <2>1, Appended
<1> HIDE DEF e
<1>6. e.apps[a].options = Append(own, o)
  BY <1>3
<1> HIDE DEF own
<1>7. Shaped(e)
  <2>1. \A b \in DOMAIN d.apps : e.apps[b].options \in Seq(DOMAIN e.options)
    <3>1. \A b \in DOMAIN d.apps : d.apps[b].options \in Seq(DOMAIN e.options)
      BY <1>2 DEF WellFormed, Shaped
    <3> QED
      BY <1>2, <1>5, <1>3, <1>6, <3>1
  <2>2. e.home \in [DOMAIN e.options -> DOMAIN e.apps]
    BY <1>2 DEF WellFormed, Shaped
  <2>3. \A p \in DOMAIN e.options : IsOption(e.options[p], DOMAIN e.options)
    BY <1>2, OptionsAre DEF WellFormed, IsOption
  <2>4. DOMAIN e.apps \subseteq AppIds /\ Root \in DOMAIN e.apps /\ DOMAIN e.options \subseteq OptionIds
    BY <1>2 DEF WellFormed, Shaped
  <2>5. \A b \in DOMAIN e.apps :
          /\ DOMAIN e.apps[b] = DOMAIN DefaultApp
          /\ e.apps[b].subs \in Seq(DOMAIN e.apps)
          /\ e.apps[b].exclude_subs \subseteq DOMAIN e.apps
    BY <1>2, <1>3, <1>6 DEF WellFormed, Shaped
  <2> QED
    BY <1>2, <2>1, <2>2, <2>3, <2>4, <2>5 DEF Shaped, IsOption
<1>8. Placed(e)
  <2>1. \A b \in DOMAIN d.apps : Range(d.apps[b].subs) \subseteq DOMAIN d.apps
    BY SubsAreApps DEF Subs, WellFormed
  <2>2. \A b \in DOMAIN d.apps : OwnOptions(d, b) \subseteq DOMAIN d.options
    <3> SUFFICES ASSUME NEW b \in DOMAIN d.apps PROVE OwnOptions(d, b) \subseteq DOMAIN d.options
      OBVIOUS
    <3> DEFINE s == d.apps[b].options
    <3>1. s \in Seq(DOMAIN d.options)
      BY DEF WellFormed, Shaped
    <3> HIDE DEF s
    <3>2. Range(s) \subseteq DOMAIN d.options
      BY <3>1 DEF Range
    <3> QED
      BY <3>2 DEF OwnOptions, s
  <2>3. \A b \in DOMAIN d.apps : OwnOptions(e, b) = OwnOptions(d, b) \cup (IF b = a THEN {o} ELSE {})
    BY <1>5, <1>3, <1>6 DEF OwnOptions, own
  <2>4. \A b \in DOMAIN d.apps :
          /\ IsInjective(e.apps[b].subs) /\ IsInjective(e.apps[b].options)
          /\ \A sub \in Range(e.apps[b].subs) : e.apps[sub].parent = b
    BY <1>5, <1>3, <1>6, <2>1 DEF WellFormed, Placed
  <2>5. e.apps[Root].parent = NoApp
    BY <1>3, <1>6 DEF WellFormed, Placed, Shaped
  <2>6. \A b, c \in DOMAIN d.apps : b # c => OwnOptions(e, b) \cap OwnOptions(e, c) = {}
    BY <2>2, <2>3 DEF WellFormed, Placed
  <2> QED
    BY <1>2, <2>4, <2>5, <2>6 DEF Placed
<1>9. NoCycle(e) /\ Symmetric(e)
  BY <1>2, <1>3, <1>6 DEF WellFormed, NoCycle, Symmetric
<1>10. \A b \in DOMAIN e.apps : HelpOwned(e, b)
  BY <1>2, <1>5, <1>3, <1>6 DEF WellFormed, HelpOwned, OwnOptions, own
<1>11. o \in OwnOptions(e, a) /\ Newest(e, a) = o
  BY <1>5, <1>3, <1>6 DEF OwnOptions, Newest
<1> QED
  BY <1>7, <1>8, <1>9, <1>10, <1>11 DEF WellFormed, e
-----------------------------------------------------------------------------
(***************************************************************************)
(* What is changed by remove_option: the option is in its app no more, its *)
(* help pointers are cleared, and the links of the options beside it.      *)
(***************************************************************************)
IsRemoved(e, d, a, o) ==
  /\ DOMAIN e = {"apps", "options", "home"} /\ e.home = d.home
  /\ DOMAIN e.apps = DOMAIN d.apps
  /\ \A b \in DOMAIN d.apps :
       /\ b # a => e.apps[b] = d.apps[b]
       /\ DOMAIN e.apps[b] = DOMAIN d.apps[b]
       /\ e.apps[b].subs = d.apps[b].subs /\ e.apps[b].parent = d.apps[b].parent
       /\ e.apps[b].exclude_subs = d.apps[b].exclude_subs
  /\ e.apps[a].options = RemoveFirst(d.apps[a].options, o)
  /\ e.apps[a].help = IF d.apps[a].help = o THEN NoOption ELSE d.apps[a].help
  /\ e.apps[a].help_all = IF d.apps[a].help_all = o THEN NoOption ELSE d.apps[a].help_all
  /\ DOMAIN e.options = DOMAIN d.options
  /\ \A p \in DOMAIN d.options :
       e.options[p] = IF p \in OwnOptions(d, a) THEN Unlinked(d.options[p], o)
                                                 ELSE d.options[p]

LEMMA RemovedFacts ==
  ASSUME NEW d, Shaped(d), NEW a \in DOMAIN d.apps, NEW o
  PROVE  IsRemoved(remove_option(d, a, o), d, a, o)
<1>1. /\ DOMAIN d = {"apps", "options", "home"}
      /\ \A b \in DOMAIN d.apps : DOMAIN d.apps[b] = DOMAIN DefaultApp
  BY DEF Shaped
<1> QED
  BY <1>1 DEF IsRemoved, remove_option, DefaultApp

(***************************************************************************)
(* The options of an app are options.                                      *)
(***************************************************************************)
LEMMA OwnOptionsAre ==
  ASSUME NEW d, Shaped(d), NEW a \in DOMAIN d.apps
  PROVE  OwnOptions(d, a) \subseteq DOMAIN d.options
<1> DEFINE s == d.apps[a].options
<1>1. s \in Seq(DOMAIN d.options)
  BY DEF Shaped
<1> HIDE DEF s
<1>2. Range(s) \subseteq DOMAIN d.options
  BY <1>1 DEF Range
<1> QED
  BY <1>2 DEF OwnOptions, s

(***************************************************************************)
(* Without its links to another, an option is one still.                   *)
(***************************************************************************)
LEMMA LinksRemoved ==
  ASSUME NEW d, NEW opt, IsOption(opt, DOMAIN d.options), NEW o
  PROVE  /\ IsOption(Unlinked(opt, o), DOMAIN d.options)
         /\ Unlinked(opt, o).needs = opt.needs \ {o}
         /\ Unlinked(opt, o).excludes = opt.excludes \ {o}
<1>1. {"needs", "excludes", "type_min", "type_max", "exp_min", "exp_max"} \subseteq DOMAIN opt
  BY DEF IsOption, DefaultOption
<1> QED
  BY <1>1 DEF IsOption, Sized, Unlinked

(***************************************************************************)
(* remove_option leaves the definition well-formed: the help flag that     *)
(* goes is pointed to no more.                                             *)
(***************************************************************************)
LEMMA RemoveOptionWellFormed ==
  ASSUME NEW d, WellFormed(d), NEW a \in DOMAIN d.apps, NEW o
  PROVE  /\ WellFormed(remove_option(d, a, o))
         /\ \A b \in DOMAIN d.apps :
              OwnOptions(remove_option(d, a, o), b)
                = IF b = a THEN OwnOptions(d, b) \ {o} ELSE OwnOptions(d, b)
<1> DEFINE e == remove_option(d, a, o)
           own == d.apps[a].options
           rest == RemoveFirst(own, o)
<1>1. IsRemoved(e, d, a, o)
  BY RemovedFacts DEF WellFormed
<1>2. own \in Seq(DOMAIN d.options) /\ IsInjective(own)
  BY DEF WellFormed, Shaped, Placed
<1>3. rest \in Seq(DOMAIN d.options) /\ IsInjective(rest) /\ Range(rest) = Range(own) \ {o}
  BY <1>2, Removed
<1> HIDE DEF e, rest
<1>4. /\ DOMAIN e = {"apps", "options", "home"} /\ e.home = d.home
      /\ DOMAIN e.apps = DOMAIN d.apps
      /\ \A b \in DOMAIN d.apps :
           /\ DOMAIN e.apps[b] = DOMAIN d.apps[b]
           /\ e.apps[b].options = IF b = a THEN rest ELSE d.apps[b].options
           /\ e.apps[b].subs = d.apps[b].subs /\ e.apps[b].parent = d.apps[b].parent
           /\ e.apps[b].exclude_subs = d.apps[b].exclude_subs
      /\ DOMAIN e.options = DOMAIN d.options
  BY <1>1 DEF IsRemoved, rest
<1>5. \A b \in DOMAIN d.apps :
        OwnOptions(e, b) = IF b = a THEN OwnOptions(d, b) \ {o} ELSE OwnOptions(d, b)
  BY <1>3, <1>4 DEF OwnOptions
<1>6. Shaped(e)
  <2>1. \A b \in DOMAIN d.apps : e.apps[b].options \in Seq(DOMAIN e.options)
    BY <1>3, <1>4 DEF WellFormed, Shaped
  <2>2. \A p \in DOMAIN d.options : IsOption(e.options[p], DOMAIN d.options)
    <3> SUFFICES ASSUME NEW p \in DOMAIN d.options PROVE IsOption(e.options[p], DOMAIN d.options)
      OBVIOUS
    <3> DEFINE old == d.options[p]
    <3>1. IsOption(old, DOMAIN d.options)
      BY OptionsAre DEF WellFormed
    <3>2. e.options[p] = Unlinked(old, o) \/ e.options[p] = old
      BY <1>1 DEF IsRemoved
    <3> HIDE DEF old
    <3> QED
      BY <3>1, <3>2, LinksRemoved
  <2> QED
    BY <1>4, <2>1, <2>2 DEF WellFormed, Shaped, IsOption
<1>7. Placed(e)
  <2>1. \A b \in DOMAIN d.apps : Range(d.apps[b].subs) \subseteq DOMAIN d.apps
    BY SubsAreApps DEF Subs, WellFormed
  <2>2. \A b \in DOMAIN d.apps :
          /\ IsInjective(e.apps[b].subs) /\ IsInjective(e.apps[b].options)
          /\ \A sub \in Range(e.apps[b].subs) : e.apps[sub].parent = b
    BY <1>3, <1>4, <2>1 DEF WellFormed, Placed
  <2>3. e.apps[Root].parent = NoApp
    BY <1>4 DEF WellFormed, Placed, Shaped
  <2>4. \A b, c \in DOMAIN d.apps : b # c => OwnOptions(e, b) \cap OwnOptions(e, c) = {}
    BY <1>5 DEF WellFormed, Placed
  <2> QED
    BY <1>4, <2>2, <2>3, <2>4 DEF Placed
<1>8. NoCycle(e) /\ Symmetric(e)
  BY <1>4 DEF WellFormed, NoCycle, Symmetric
<1>9. \A b \in DOMAIN e.apps : HelpOwned(e, b)
  <2> SUFFICES ASSUME NEW b \in DOMAIN d.apps PROVE HelpOwned(e, b)
    BY <1>4
  <2>1. HelpOwned(d, b)
    BY DEF WellFormed
  <2>2. CASE b = a
    <3>1. /\ e.apps[b].help = IF d.apps[b].help = o THEN NoOption ELSE d.apps[b].help
          /\ e.apps[b].help_all = IF d.apps[b].help_all = o THEN NoOption ELSE d.apps[b].help_all
          /\ OwnOptions(e, b) = OwnOptions(d, b) \ {o}
      BY <1>1, <1>5, <2>2 DEF IsRemoved
    <3> QED
      BY <2>1, <3>1 DEF HelpOwned
  <2>3. CASE b # a
    <3>1. e.apps[b] = d.apps[b] /\ OwnOptions(e, b) = OwnOptions(d, b)
      BY <1>1, <1>5, <2>3 DEF IsRemoved
    <3> QED
      BY <2>1, <3>1 DEF HelpOwned
  <2> QED
    BY <2>2, <2>3
<1> QED
  BY <1>5, <1>6, <1>7, <1>8, <1>9 DEF WellFormed, e

(***************************************************************************)
(* Pointing to a flag or a configuration file.                             *)
(***************************************************************************)
Kinds == {"help", "help_all", "version", "config"}

IsPointed(new, app, kind, o) ==
  /\ DOMAIN new = DOMAIN app
  /\ new.subs = app.subs /\ new.options = app.options /\ new.parent = app.parent
  /\ new.exclude_subs = app.exclude_subs
  /\ new.help = IF kind = "help" THEN o ELSE app.help
  /\ new.help_all = IF kind = "help_all" THEN o ELSE app.help_all

LEMMA PointedTies ==
  ASSUME NEW app, DOMAIN app = DOMAIN DefaultApp, NEW kind \in Kinds, NEW o
  PROVE  IsPointed([app EXCEPT ![kind] = o], app, kind, o)
BY DEF DefaultApp, Kinds, IsPointed

SameButPointers(e, d, a) ==
  /\ WellFormed(e)
  /\ DOMAIN e.apps = DOMAIN d.apps /\ e.options = d.options /\ e.home = d.home
  /\ \A b \in DOMAIN d.apps :
       /\ e.apps[b].options = d.apps[b].options
       /\ e.apps[b].subs = d.apps[b].subs
       /\ e.apps[b].parent = d.apps[b].parent
       /\ b # a => e.apps[b] = d.apps[b]

LEMMA PointWellFormed ==
  ASSUME NEW d, WellFormed(d), NEW a \in DOMAIN d.apps, NEW kind \in Kinds,
         NEW o, o = NoOption \/ (o \in OwnOptions(d, a) /\ o \notin {d.apps[a].help, d.apps[a].help_all})
  PROVE  SameButPointers([d EXCEPT !.apps[a][kind] = o], d, a)
<1> DEFINE e == [d EXCEPT !.apps[a][kind] = o]
<1>1. /\ DOMAIN e = DOMAIN d /\ e.options = d.options /\ e.home = d.home
      /\ DOMAIN e.apps = DOMAIN d.apps
      /\ \A b \in DOMAIN d.apps : b # a => e.apps[b] = d.apps[b]
      /\ e.apps[a] = [d.apps[a] EXCEPT ![kind] = o]
  BY DEF WellFormed, Shaped
<1>2. IsPointed(e.apps[a], d.apps[a], kind, o)
  <2>1. DOMAIN d.apps[a] = DOMAIN DefaultApp
    BY DEF WellFormed, Shaped
  <2> DEFINE app == d.apps[a]
  <2> HIDE DEF app, e
  <2>2. IsPointed([app EXCEPT ![kind] = o], app, kind, o)
    BY <2>1, PointedTies DEF app
  <2> QED
    BY <1>1, <2>2 DEF app
<1> HIDE DEF e
<1>3. \A b \in DOMAIN d.apps :
        /\ DOMAIN e.apps[b] = DOMAIN d.apps[b]
        /\ e.apps[b].options = d.apps[b].options
        /\ e.apps[b].subs = d.apps[b].subs /\ e.apps[b].parent = d.apps[b].parent
        /\ e.apps[b].exclude_subs = d.apps[b].exclude_subs
  BY <1>1, <1>2 DEF IsPointed
<1>4. Shaped(e)
  BY <1>1, <1>3 DEF WellFormed, Shaped
<1>5. Placed(e)
  <2>1. \A b \in DOMAIN d.apps : Range(d.apps[b].subs) \subseteq DOMAIN d.apps
    BY SubsAreApps DEF Subs, WellFormed
  <2>2. \A b \in DOMAIN d.apps :
          /\ IsInjective(e.apps[b].subs) /\ IsInjective(e.apps[b].options)
          /\ \A sub \in Range(e.apps[b].subs) : e.apps[sub].parent = b
    BY <1>3, <2>1 DEF WellFormed, Placed
  <2>3. e.apps[Root].parent = NoApp
    BY <1>3 DEF WellFormed, Placed, Shaped
  <2>4. \A b, c \in DOMAIN d.apps : b # c => OwnOptions(e, b) \cap OwnOptions(e, c) = {}
    BY <1>3 DEF WellFormed, Placed, OwnOptions
  <2> QED
    BY <1>1, <2>2, <2>3, <2>4 DEF Placed
<1>6. NoCycle(e) /\ Symmetric(e)
  BY <1>1, <1>3 DEF WellFormed, NoCycle, Symmetric
<1>7. \A b \in DOMAIN e.apps : HelpOwned(e, b)
  <2> SUFFICES ASSUME NEW b \in DOMAIN d.apps PROVE HelpOwned(e, b)
    BY <1>1
  <2>1. HelpOwned(d, b) /\ OwnOptions(e, b) = OwnOptions(d, b)
    BY <1>3 DEF WellFormed, OwnOptions
  <2>2. CASE b # a
    BY <1>1, <2>1, <2>2 DEF HelpOwned
  <2>3. CASE b = a
    <3>1. /\ e.apps[b].help = IF kind = "help" THEN o ELSE d.apps[b].help
          /\ e.apps[b].help_all = IF kind = "help_all" THEN o ELSE d.apps[b].help_all
      BY <1>2, <2>3 DEF IsPointed
    <3> QED
      BY <2>1, <2>3, <3>1 DEF HelpOwned
  <2> QED
    BY <2>2, <2>3
<1>8. WellFormed(e)
  BY <1>4, <1>5, <1>6, <1>7 DEF WellFormed
<1> QED
  BY <1>1, <1>3, <1>8 DEF SameButPointers, e
-----------------------------------------------------------------------------
(***************************************************************************)
(* Products of natural numbers grow with their factors.                    *)
(***************************************************************************)
LEMMA Products ==
  ASSUME NEW m \in Nat, NEW n \in Nat, NEW p \in Nat, NEW q \in Nat, m <= p, n <= q
  PROVE  m * n \in Nat /\ m * n <= p * q
<1>1. m * n <= p * n
  <2>1. p * n - m * n = (p - m) * n
    OBVIOUS
  <2>2. (p - m) * n >= 0
    OBVIOUS
  <2> QED
    BY <2>1, <2>2
<1>2. p * n <= p * q
  <2>1. p * q - p * n = p * (q - n)
    OBVIOUS
  <2>2. p * (q - n) >= 0
    OBVIOUS
  <2> QED
    BY <2>1, <2>2
<1> QED
  BY <1>1, <1>2

(***************************************************************************)
(* The product of two modest numbers does not count as unlimited.          *)
(***************************************************************************)
LEMMA ModestFacts ==
  /\ Modest(0) /\ Modest(1)
  /\ \A n : Modest(n) => n \in Nat /\ n <= expected_max_vector_size
  /\ \A m, n : Modest(m) /\ Modest(n) => m * n <= expected_max_vector_size
  /\ \A m \in Nat : \A n : m <= n /\ Modest(n) => Modest(m)
<1> USE VectorSizeAssumption
<1>1. Modest(0) /\ Modest(1)
  BY DEF Modest
<1>2. ASSUME NEW m \in Nat, NEW n, m <= n, Modest(n)
      PROVE  Modest(m)
  BY <1>2, Products DEF Modest
<1>3. ASSUME NEW n, Modest(n)
      PROVE  n \in Nat /\ n <= expected_max_vector_size
  <2>1. n \in Nat
    BY <1>3 DEF Modest
  <2>2. CASE n = 0
    BY <2>2
  <2>3. CASE n >= 1
    BY <1>3, <2>1, <2>3, Products DEF Modest
  <2> QED
    BY <2>1, <2>2, <2>3
<1>4. ASSUME NEW m, NEW n, Modest(m), Modest(n)
      PROVE  m * n <= expected_max_vector_size
  <2>1. m \in Nat /\ n \in Nat
    BY <1>4 DEF Modest
  <2>2. CASE m <= n
    BY <1>4, <2>1, <2>2, Products DEF Modest
  <2>3. CASE n <= m
    BY <1>4, <2>1, <2>3, Products DEF Modest
  <2> QED
    BY <2>1, <2>2, <2>3
<1> QED
  BY <1>1, <1>2, <1>3, <1>4

(***************************************************************************)
(* An option whose sizes are as Sized says can be given: the least number  *)
(* of strings that it takes is no more than the most, and neither is       *)
(* unlimited by the multiplication alone.                                  *)
(***************************************************************************)
LEMMA SizedCanBeGiven ==
  ASSUME NEW opt, Sized(opt)
  PROVE  RightNumber(opt, Larger(items_expected_min(opt), 1))
<1> DEFINE least == opt.type_min * opt.exp_min
           most == opt.type_max * opt.exp_max
<1>1. least \in Nat /\ most \in Nat /\ least <= most
  BY Products DEF Sized, Modest
<1>2. least <= expected_max_vector_size
  BY ModestFacts DEF Sized
<1>3. items_expected_min(opt) = least
  BY DEF items_expected_min
<1>4. items_expected_max(opt) \in {most, expected_max_vector_size}
  BY DEF items_expected_max
<1> HIDE DEF least, most
<1> QED
  BY <1>1, <1>2, <1>3, <1>4, VectorSizeAssumption DEF RightNumber, Larger

(***************************************************************************)
(* What type_size, expected and multi_option_policy change, whatever they  *)
(* are called with, is sized again.                                        *)
(***************************************************************************)
SizedFields == {"type_min", "type_max", "exp_min", "exp_max", "needs", "excludes"}

LEMMA SizedFieldsAre == SizedFields \subseteq DOMAIN DefaultOption
BY DEF SizedFields, DefaultOption

LEMMA TypeSizeSized ==
  ASSUME NEW opt, NEW ids, IsOption(opt, ids),
         NEW n \in Int, n = expected_max_vector_size \/ Modest(Magnitude(n))
  PROVE  IsOption(type_size(opt, n), ids)
<1>1. DOMAIN opt = DOMAIN DefaultOption /\ opt.needs \cup opt.excludes \subseteq ids
  BY DEF IsOption
<1> DEFINE new == type_size(opt, n)
<1>2. /\ DOMAIN new = DOMAIN DefaultOption
      /\ new.needs = opt.needs /\ new.excludes = opt.excludes
      /\ new.exp_min = opt.exp_min
      /\ new.exp_max = IF n < 0 THEN expected_max_vector_size ELSE opt.exp_max
      /\ new.type_max = IF n < 0 THEN -n ELSE n
      /\ new.type_min = IF n < 0 THEN -n
                        ELSE IF n < expected_max_vector_size THEN n ELSE opt.type_min
  BY <1>1, SizedFieldsAre DEF SizedFields, type_size
<1> HIDE DEF new
<1>3. Sized(new)
  BY <1>2, ModestFacts, VectorSizeAssumption DEF IsOption, Sized, Magnitude
<1> QED
  BY <1>1, <1>2, <1>3 DEF IsOption, new

LEMMA TypeSizesSized ==
  ASSUME NEW opt, NEW ids, IsOption(opt, ids),
         NEW min \in Int, NEW max \in Int, Modest(Magnitude(min))
  PROVE  IsOption(type_sizes(opt, min, max), ids)
<1>1. DOMAIN opt = DOMAIN DefaultOption /\ opt.needs \cup opt.excludes \subseteq ids
  BY DEF IsOption
<1> DEFINE new == type_sizes(opt, min, max)
<1>2. /\ DOMAIN new = DOMAIN DefaultOption
      /\ new.needs = opt.needs /\ new.excludes = opt.excludes
      /\ new.exp_min = opt.exp_min
      /\ new.exp_max = IF min < 0 \/ max < 0 THEN expected_max_vector_size ELSE opt.exp_max
      /\ new.type_max = Larger(Magnitude(min), Magnitude(max))
      /\ new.type_min = Smaller(Magnitude(min), Magnitude(max))
  BY <1>1, SizedFieldsAre DEF SizedFields, type_sizes
<1>3. Magnitude(min) \in Nat /\ Magnitude(max) \in Nat
  BY DEF Magnitude
<1> HIDE DEF new
<1>4. Sized(new)
  BY <1>2, <1>3, ModestFacts, VectorSizeAssumption DEF IsOption, Sized, Larger, Smaller
<1> QED
  BY <1>1, <1>2, <1>4 DEF IsOption, new

LEMMA ExpectedSized ==
  ASSUME NEW opt, NEW ids, IsOption(opt, ids),
         NEW n \in Int, n = expected_max_vector_size \/ Modest(Magnitude(n))
  PROVE  IsOption(expected(opt, n), ids)
<1>1. DOMAIN opt = DOMAIN DefaultOption /\ opt.needs \cup opt.excludes \subseteq ids
  BY DEF IsOption
<1> DEFINE new == expected(opt, n)
<1>2. /\ DOMAIN new = DOMAIN DefaultOption
      /\ new.needs = opt.needs /\ new.excludes = opt.excludes
      /\ new.type_min = opt.type_min /\ new.type_max = opt.type_max
      /\ new.exp_min = IF n < 0 THEN -n ELSE IF n = expected_max_vector_size THEN 1 ELSE n
      /\ new.exp_max = IF n < 0 THEN Larger(opt.exp_max, -n) ELSE n
  BY <1>1, SizedFieldsAre DEF SizedFields, expected
<1> HIDE DEF new
<1>3. Sized(new)
  BY <1>2, ModestFacts, VectorSizeAssumption DEF IsOption, Sized, Magnitude, Larger
<1> QED
  BY <1>1, <1>2, <1>3 DEF IsOption, new

LEMMA ExpectedRangeSized ==
  ASSUME NEW opt, NEW ids, IsOption(opt, ids),
         NEW min \in Int, NEW max \in Int, Modest(Magnitude(min))
  PROVE  IsOption(expected_range(opt, min, max), ids)
<1>1. DOMAIN opt = DOMAIN DefaultOption /\ opt.needs \cup opt.excludes \subseteq ids
  BY DEF IsOption
<1> DEFINE new == expected_range(opt, min, max)
           most == IF max < 0 THEN expected_max_vector_size ELSE max
<1>2. /\ DOMAIN new = DOMAIN DefaultOption
      /\ new.needs = opt.needs /\ new.excludes = opt.excludes
      /\ new.type_min = opt.type_min /\ new.type_max = opt.type_max
      /\ new.exp_min = Smaller(Magnitude(min), most)
      /\ new.exp_max = Larger(Magnitude(min), most)
  BY <1>1, SizedFieldsAre DEF SizedFields, expected_range
<1>3. Magnitude(min) \in Nat /\ most \in Nat
  BY VectorSizeAssumption DEF Magnitude
<1> HIDE DEF new, most
<1>4. Sized(new)
  BY <1>2, <1>3, ModestFacts DEF IsOption, Sized, Larger, Smaller
<1> QED
  BY <1>1, <1>2, <1>4 DEF IsOption, new

LEMMA PolicySized ==
  ASSUME NEW opt, NEW ids, IsOption(opt, ids), NEW value
  PROVE  IsOption(multi_option_policy(opt, value), ids)
<1>1. DOMAIN opt = DOMAIN DefaultOption /\ opt.needs \cup opt.excludes \subseteq ids
  BY DEF IsOption
<1> DEFINE new == multi_option_policy(opt, value)
<1>2. /\ DOMAIN new = DOMAIN DefaultOption
      /\ new.needs = opt.needs /\ new.excludes = opt.excludes
      /\ new.type_min = opt.type_min /\ new.type_max = opt.type_max
      /\ new.exp_min = opt.exp_min
      /\ new.exp_max \in {opt.exp_max, opt.exp_min}
  BY <1>1, SizedFieldsAre DEF SizedFields, multi_option_policy
<1> HIDE DEF new
<1>3. Sized(new)
  BY <1>2 DEF IsOption, Sized, Modest
<1> QED
  BY <1>1, <1>2, <1>3 DEF IsOption, new
-----------------------------------------------------------------------------
(***************************************************************************)
(* The definition with a changed option, and nothing else changed.         *)
(***************************************************************************)
OnlyOption(e, d, o) ==
  /\ WellFormed(e)
  /\ e.apps = d.apps /\ e.home = d.home /\ DOMAIN e.options = DOMAIN d.options
  /\ \A p \in DOMAIN d.options \ {o} : e.options[p] = d.options[p]

LEMMA SetOnlyOption ==
  ASSUME NEW d, WellFormed(d), NEW o \in DOMAIN d.options, NEW opt,
         IsOption(opt, DOMAIN d.options)
  PROVE  OnlyOption(Set(d, o, opt), d, o)
BY SetFacts, SetWellFormed DEF OnlyOption, WellFormed

(***************************************************************************)
(* Option::ignore_case and ignore_underscore put the flag back before they *)
(* throw.                                                                  *)
(***************************************************************************)
LEMMA OptionIgnoresKeeps ==
  ASSUME NEW d, WellFormed(d), NEW o \in DOMAIN d.options, NEW what \in Ignorable, NEW value
  PROVE  /\ OnlyOption(option_ignores(d, o, what, value).cli, d, o)
         /\ option_ignores(d, o, what, value).thrown # "none"
              => option_ignores(d, o, what, value).cli = d
         /\ ~value => option_ignores(d, o, what, value).thrown = "none"
<1> DEFINE opt == d.options[o]
           changed == [opt EXCEPT ![what] = value]
<1>1. IsOption(opt, DOMAIN d.options)
  BY OptionsAre DEF WellFormed
<1> HIDE DEF opt
<1>2. IsOption(changed, DOMAIN d.options)
  <2>1. SizedFields \subseteq DOMAIN opt /\ what \notin SizedFields
    BY <1>1, SizedFieldsAre DEF IsOption, Ignorable, SizedFields
  <2> QED
    BY <1>1, <2>1 DEF IsOption, Sized, SizedFields
<1> HIDE DEF changed
<1>3. OnlyOption(Set(d, o, changed), d, o)
  BY <1>2, SetOnlyOption
<1>4. OnlyOption(d, d, o)
  BY DEF OnlyOption
<1>5. \/ /\ value
         /\ option_ignores(d, o, what, value) = Throws(d, "OptionAlreadyAdded")
      \/ option_ignores(d, o, what, value) = Returns(Set(d, o, changed))
  BY DEF option_ignores, changed, opt
<1> QED
  BY <1>3, <1>4, <1>5 DEF Throws, Returns

(***************************************************************************)
(* OptionDefaults copied to a new option (copy_to): they throw only if     *)
(* something is ignored by default.                                        *)
(***************************************************************************)
LEMMA CopyToKeeps ==
  ASSUME NEW d, WellFormed(d), NEW o \in DOMAIN d.options, NEW defaults
  PROVE  /\ OnlyOption(copy_to(d, defaults, o).cli, d, o)
         /\ ~defaults.ignore_case /\ ~defaults.ignore_underscore
              => copy_to(d, defaults, o).thrown = "none"
<1> DEFINE opt == d.options[o]
           b == [d EXCEPT !.options[o].required = defaults.required]
           first == option_ignores(b, o, "ignore_case", defaults.ignore_case)
           second == option_ignores(first.cli, o, "ignore_underscore", defaults.ignore_underscore)
           third == multi_option_policy(
             [second.cli.options[o] EXCEPT
                !.configurable = defaults.configurable, !.delimiter = defaults.delimiter,
                !.disable_flag_override = defaults.disable_flag_override], defaults.policy)
           last == Set(second.cli, o, third)
<1>1. copy_to(d, defaults, o) = IF first.thrown # "none" THEN first
                                ELSE IF second.thrown # "none" THEN second
                                ELSE Returns(last)
  BY DEF copy_to, Chain
<1>2. OnlyOption(b, d, o)
  <2> DEFINE changed == [opt EXCEPT !.required = defaults.required]
  <2>1. b = Set(d, o, changed)
    BY DEF Set
  <2>2. IsOption(opt, DOMAIN d.options)
    BY OptionsAre DEF WellFormed
  <2> HIDE DEF opt
  <2>3. IsOption(changed, DOMAIN d.options)
    <3>1. SizedFields \subseteq DOMAIN opt
      BY <2>2, SizedFieldsAre DEF IsOption
    <3> QED
      BY <2>2, <3>1 DEF IsOption, Sized, SizedFields
  <2> HIDE DEF changed, b
  <2> QED
    BY <2>1, <2>3, SetOnlyOption
<1> HIDE DEF b
<1>3. OnlyOption(first.cli, b, o) /\ (~defaults.ignore_case => first.thrown = "none")
  <2>1. WellFormed(b) /\ o \in DOMAIN b.options /\ "ignore_case" \in Ignorable
    BY <1>2 DEF OnlyOption, Ignorable
  <2> QED
    BY <2>1, OptionIgnoresKeeps, Zenon
<1> HIDE DEF first
<1>4. OnlyOption(second.cli, first.cli, o) /\ (~defaults.ignore_underscore => second.thrown = "none")
  <2>1. WellFormed(first.cli) /\ o \in DOMAIN first.cli.options /\ "ignore_underscore" \in Ignorable
    BY <1>2, <1>3 DEF OnlyOption, Ignorable
  <2> QED
    BY <2>1, OptionIgnoresKeeps, Zenon
<1> HIDE DEF second
<1>5. OnlyOption(last, second.cli, o)
  <2> DEFINE old == second.cli.options[o]
             ids == DOMAIN second.cli.options
             changed == [old EXCEPT
               !.configurable = defaults.configurable, !.delimiter = defaults.delimiter,
               !.disable_flag_override = defaults.disable_flag_override]
  <2>1. WellFormed(second.cli) /\ o \in ids
    BY <1>2, <1>3, <1>4 DEF OnlyOption
  <2>2. IsOption(old, ids)
    BY <2>1, OptionsAre DEF WellFormed
  <2> HIDE DEF old, ids
  <2>3. IsOption(changed, ids)
    <3>1. SizedFields \subseteq DOMAIN old
      BY <2>2, SizedFieldsAre DEF IsOption
    <3> QED
      BY <2>2, <3>1 DEF IsOption, Sized, SizedFields
  <2>4. third = multi_option_policy(changed, defaults.policy)
    BY DEF old
  <2> HIDE DEF changed, third
  <2>5. IsOption(third, ids)
    BY <2>3, <2>4, PolicySized
  <2> QED
    BY <2>1, <2>5, SetOnlyOption DEF ids
<1> HIDE DEF last
<1> QED
  BY <1>1, <1>2, <1>3, <1>4, <1>5 DEF OnlyOption, Returns

(***************************************************************************)
(* A new option, made of its names.                                        *)
(***************************************************************************)
LEMMA NamesAreOption ==
  ASSUME NEW names, NEW ids
  PROVE  IsOption(get_names(names), ids)
<1> DEFINE new == get_names(names)
<1>1. /\ DOMAIN new = DOMAIN DefaultOption
      /\ new.needs = {} /\ new.excludes = {}
      /\ new.type_min = 1 /\ new.type_max = 1 /\ new.exp_min = 1 /\ new.exp_max = 1
  BY DEF get_names, DefaultOption
<1> HIDE DEF new
<1> QED
  BY <1>1, ModestFacts DEF IsOption, Sized, new

(***************************************************************************)
(* Room for n options more.                                                *)
(***************************************************************************)
Room(d, n) == Cardinality(DOMAIN d.options) + n <= Cardinality(OptionIds)

(***************************************************************************)
(* As long as there is room, a new option gets an identity that none has.  *)
(***************************************************************************)
LEMMA NewOption ==
  ASSUME NEW d, Shaped(d), Room(d, 1)
  PROVE  Unused(OptionIds, d.options) \in OptionIds \ DOMAIN d.options
<1>1. Cardinality(DOMAIN d.options) # Cardinality(OptionIds)
  <2>1. Cardinality(DOMAIN d.options) \in Nat /\ Cardinality(OptionIds) \in Nat
    BY IdsAssumption, FS_Subset, FS_CardinalityType DEF Shaped
  <2> QED
    BY <2>1 DEF Room
<1>2. \E id \in OptionIds : id \notin DOMAIN d.options
  <2> SUFFICES ASSUME OptionIds \subseteq DOMAIN d.options PROVE FALSE
    OBVIOUS
  <2>1. OptionIds = DOMAIN d.options
    BY DEF Shaped
  <2> QED
    BY <1>1, <2>1
<1> QED
  BY <1>2 DEF Unused

(***************************************************************************)
(* The definition with an option more, the last of its app, and nothing    *)
(* else changed.                                                           *)
(***************************************************************************)
AddsOption(e, d, a, o) ==
  /\ WellFormed(e) /\ o \in OptionIds \ DOMAIN d.options
  /\ DOMAIN e.apps = DOMAIN d.apps /\ DOMAIN e.options = DOMAIN d.options \cup {o}
  /\ e.apps = [d.apps EXCEPT ![a].options = Append(@, o)]
  /\ o \in OwnOptions(e, a) /\ Newest(e, a) = o
  /\ \A p \in DOMAIN d.options : e.options[p] = d.options[p]

(***************************************************************************)
(* add_option adds one option or throws with nothing changed, unless an    *)
(* option ignores something by default: then the option stays.             *)
(***************************************************************************)
LEMMA AddOptionAdds ==
  ASSUME NEW d, WellFormed(d), Room(d, 1), NEW a \in DOMAIN d.apps, NEW names
  PROVE  LET out == add_option(d, a, names)
             o == Unused(OptionIds, d.options)
             defaults == d.apps[a].defaults
         IN  /\ (out.cli = d /\ out.thrown # "none") \/ AddsOption(out.cli, d, a, o)
             /\ ~defaults.ignore_case /\ ~defaults.ignore_underscore /\ out.thrown # "none"
                  => out.cli = d
<1> DEFINE out == add_option(d, a, names)
           o == Unused(OptionIds, d.options)
           defaults == d.apps[a].defaults
           opt == get_names(names)
           b == Added(d, a, opt, o)
           done == copy_to(b, defaults, o)
<1>1. (out.cli = d /\ out.thrown # "none") \/ out = done
  BY DEF add_option, Throws
<1>2. o \in OptionIds \ DOMAIN d.options
  BY NewOption DEF WellFormed
<1> HIDE DEF o
<1>3. IsOption(opt, DOMAIN d.options)
  BY NamesAreOption
<1> HIDE DEF opt
<1>4. WellFormed(b) /\ o \in OwnOptions(b, a) /\ Newest(b, a) = o
  BY <1>2, <1>3, AddedWellFormed
<1>5. /\ b.apps = [d.apps EXCEPT ![a].options = Append(@, o)]
      /\ DOMAIN b.options = DOMAIN d.options \cup {o}
      /\ \A p \in DOMAIN d.options : b.options[p] = d.options[p]
  BY <1>2 DEF Added, Extend
<1> HIDE DEF b
<1>6. /\ OnlyOption(done.cli, b, o)
      /\ ~defaults.ignore_case /\ ~defaults.ignore_underscore => done.thrown = "none"
  <2>1. o \in DOMAIN b.options
    BY <1>5
  <2> QED
    BY <1>4, <2>1, CopyToKeeps, Zenon
<1> HIDE DEF done
<1>7. AddsOption(done.cli, d, a, o)
  <2>1. OwnOptions(done.cli, a) = OwnOptions(b, a) /\ Newest(done.cli, a) = Newest(b, a)
    BY <1>6 DEF OnlyOption, OwnOptions, Newest
  <2> QED
    BY <1>2, <1>4, <1>5, <1>6, <2>1 DEF OnlyOption, AddsOption
<1> QED
  BY <1>1, <1>6, <1>7 DEF o

(***************************************************************************)
(* What is left alone by a call that is about the options of one app.      *)
(***************************************************************************)
SameElsewhere(e, d, a) ==
  /\ \A b \in DOMAIN d.apps \ {a} : e.apps[b] = d.apps[b]
  /\ \A p \in DOMAIN d.options \ OwnOptions(d, a) : e.options[p] = d.options[p]

(* What a call leaves of the apps and the options when it makes one option *)
(* at most, in an app a, and no app.                                       *)
KeepsOptions(e, d, a, o) ==
  /\ WellFormed(e) /\ o \in OptionIds \ DOMAIN d.options
  /\ DOMAIN e.apps = DOMAIN d.apps
  /\ DOMAIN e.options \in {DOMAIN d.options, DOMAIN d.options \cup {o}}
  /\ \A b \in DOMAIN d.apps :
       /\ e.apps[b].subs = d.apps[b].subs /\ e.apps[b].parent = d.apps[b].parent
       /\ OwnOptions(e, b) \in {OwnOptions(d, b), OwnOptions(d, b) \cup {o}}
  /\ \A p \in DOMAIN d.options :
       e.options[p].needs \subseteq d.options[p].needs
         /\ e.options[p].excludes \subseteq d.options[p].excludes
  /\ SameElsewhere(e, d, a)

(***************************************************************************)
(* A call that changes nothing does what KeepsOptions says.                *)
(***************************************************************************)
LEMMA SameKeeps ==
  ASSUME NEW d, WellFormed(d), NEW a, NEW o \in OptionIds \ DOMAIN d.options
  PROVE  KeepsOptions(d, d, a, o)
BY DEF KeepsOptions, SameElsewhere

(***************************************************************************)
(* So does one that adds an option.                                        *)
(***************************************************************************)
LEMMA AddsKeeps ==
  ASSUME NEW d, WellFormed(d), NEW a \in DOMAIN d.apps, NEW o, NEW e, AddsOption(e, d, a, o)
  PROVE  /\ KeepsOptions(e, d, a, o)
         /\ \A b \in DOMAIN d.apps :
              OwnOptions(e, b) = IF b = a THEN OwnOptions(d, b) \cup {o} ELSE OwnOptions(d, b)
         /\ e.apps[a].help = d.apps[a].help /\ e.apps[a].help_all = d.apps[a].help_all
<1> DEFINE own == d.apps[a].options
<1>1. own \in Seq(DOMAIN d.options) /\ IsInjective(own) /\ OwnOptions(d, a) \subseteq DOMAIN d.options
  BY OwnOptionsAre DEF WellFormed, Shaped, Placed
<1>2. Range(Append(own, o)) = Range(own) \cup {o}
  <2>1. own \in Seq(DOMAIN d.options \cup {o}) /\ o \notin Range(own)
    <3>1. o \notin Range(own)
      BY <1>1 DEF AddsOption, OwnOptions
    <3> HIDE DEF own
    <3> QED
      BY <1>1, <3>1
  <2> HIDE DEF own
  <2> QED
    BY <1>1, <2>1, Appended
<1>3. \A b \in DOMAIN d.apps :
        /\ e.apps[b].options = IF b = a THEN Append(d.apps[b].options, o) ELSE d.apps[b].options
        /\ e.apps[b].subs = d.apps[b].subs /\ e.apps[b].parent = d.apps[b].parent
        /\ e.apps[b].help = d.apps[b].help /\ e.apps[b].help_all = d.apps[b].help_all
  <2>1. \A b \in DOMAIN d.apps :
          {"options", "subs", "parent", "help", "help_all"} \subseteq DOMAIN d.apps[b]
    BY DEF WellFormed, Shaped, DefaultApp
  <2> QED
    BY <2>1 DEF AddsOption
<1>4. \A b \in DOMAIN d.apps :
        OwnOptions(e, b) = IF b = a THEN OwnOptions(d, b) \cup {o} ELSE OwnOptions(d, b)
  BY <1>2, <1>3 DEF OwnOptions
<1>5. SameElsewhere(e, d, a)
  BY DEF AddsOption, SameElsewhere
<1> QED
  BY <1>3, <1>4, <1>5 DEF KeepsOptions, AddsOption

(***************************************************************************)
(* What comes of add_flag: a new option, or none, or one that was removed  *)
(* when the flag turned out to have a place ("Flags cannot be              *)
(* positional").                                                           *)
(***************************************************************************)
FlagOutcome(out, d, a, o) ==
  /\ KeepsOptions(out.cli, d, a, o)
  /\ out.thrown = "none" => AddsOption(out.cli, d, a, o)
  /\ out.thrown # "none" =>
       \/ out.cli = d
       \/ \E e : AddsOption(e, d, a, o) /\ out.cli = remove_option(e, a, o)
       \/ d.apps[a].defaults.ignore_case \/ d.apps[a].defaults.ignore_underscore

(***************************************************************************)
(* That is what comes of add_flag, the default values of the flags         *)
(* included.                                                               *)
(***************************************************************************)
LEMMA AddFlagAdds ==
  ASSUME NEW d, WellFormed(d), Room(d, 1), NEW a \in DOMAIN d.apps, NEW names
  PROVE  FlagOutcome(add_flag(d, a, names), d, a, Unused(OptionIds, d.options))
<1> DEFINE out == add_flag(d, a, names)
           o == Unused(OptionIds, d.options)
           plain == [i \in DOMAIN names |-> remove_default_flag_values(names[i])]
           with == SelectSeq(names, has_default_flag_values)
           first == add_option(d, a, plain)
           e == first.cli
           last == Newest(e, a)
           opt == e.options[last]
           flag == [Flag(opt) EXCEPT
                      !.fnames = [i \in DOMAIN with |-> FlagName(with[i])],
                      !.flag_values = [i \in DOMAIN with |-> OwnValue(with[i])]]
<1>1. \/ /\ first.thrown # "none"
         /\ out = first
      \/ /\ first.thrown = "none"
         /\ out = Throws(remove_option(e, a, last), "IncorrectConstruction")
      \/ /\ first.thrown = "none"
         /\ out = Returns(Set(e, last, flag))
  BY DEF add_flag, Chain
<1>2. o \in OptionIds \ DOMAIN d.options
  BY NewOption DEF WellFormed
<1> HIDE DEF plain
<1>3. /\ (e = d /\ first.thrown # "none") \/ AddsOption(e, d, a, o)
      /\ ~d.apps[a].defaults.ignore_case /\ ~d.apps[a].defaults.ignore_underscore
           /\ first.thrown # "none" => e = d
  BY AddOptionAdds, Zenon
<1> HIDE DEF o, first
<1>4. ASSUME first.thrown # "none", out = first
      PROVE  FlagOutcome(out, d, a, o)
  <2>1. KeepsOptions(e, d, a, o)
    BY <1>2, <1>3, SameKeeps, AddsKeeps
  <2> HIDE DEF out
  <2>2. out.cli = e /\ out.thrown # "none"
    BY <1>4
  <2> HIDE DEF e
  <2>3. out.cli = d \/ d.apps[a].defaults.ignore_case \/ d.apps[a].defaults.ignore_underscore
    BY <1>3, <1>4, <2>2, Zenon
  <2> QED
    BY <2>1, <2>2, <2>3, Zenon DEF FlagOutcome
<1>5. ASSUME first.thrown = "none",
             out = Throws(remove_option(e, a, last), "IncorrectConstruction")
      PROVE  FlagOutcome(out, d, a, o)
  <2>1. AddsOption(e, d, a, o) /\ last = o
    BY <1>3, <1>5 DEF AddsOption
  <2> DEFINE r == remove_option(e, a, o)
  <2>2. out.cli = r /\ out.thrown # "none"
    BY <1>5, <2>1 DEF Throws
  <2> HIDE DEF e, out
  <2>3. IsRemoved(r, e, a, o)
    BY <2>1, RemovedFacts DEF AddsOption, WellFormed
  <2>4. /\ WellFormed(r)
        /\ \A b \in DOMAIN d.apps :
             OwnOptions(r, b) = IF b = a THEN OwnOptions(e, b) \ {o} ELSE OwnOptions(e, b)
    BY <2>1, RemoveOptionWellFormed DEF AddsOption
  <2>5. \A b \in DOMAIN d.apps :
          OwnOptions(e, b) = IF b = a THEN OwnOptions(d, b) \cup {o} ELSE OwnOptions(d, b)
    BY <2>1, AddsKeeps
  <2>6. KeepsOptions(e, d, a, o)
    BY <2>1, AddsKeeps
  <2> HIDE DEF r
  <2>7. KeepsOptions(r, d, a, o)
    <3>1. /\ DOMAIN r.apps = DOMAIN d.apps
          /\ DOMAIN r.options = DOMAIN d.options \cup {o}
          /\ \A b \in DOMAIN d.apps :
               r.apps[b].subs = d.apps[b].subs /\ r.apps[b].parent = d.apps[b].parent
      BY <2>1, <2>3, <2>6 DEF IsRemoved, KeepsOptions, AddsOption
    <3>2. \A p \in DOMAIN d.options :
            r.options[p].needs \subseteq d.options[p].needs
              /\ r.options[p].excludes \subseteq d.options[p].excludes
      <4> SUFFICES ASSUME NEW p \in DOMAIN d.options
                   PROVE  r.options[p].needs \subseteq d.options[p].needs
                            /\ r.options[p].excludes \subseteq d.options[p].excludes
        OBVIOUS
      <4> DEFINE old == d.options[p]
      <4>1. IsOption(old, DOMAIN d.options)
        BY OptionsAre DEF WellFormed
      <4>2. r.options[p] \in {old, Unlinked(old, o)}
        BY <2>1, <2>3 DEF IsRemoved, AddsOption
      <4> HIDE DEF old
      <4>3. Unlinked(old, o).needs = old.needs \ {o} /\ Unlinked(old, o).excludes = old.excludes \ {o}
        BY <4>1, LinksRemoved
      <4>4. r.options[p].needs \subseteq old.needs /\ r.options[p].excludes \subseteq old.excludes
        BY <4>2, <4>3
      <4> QED
        BY <4>4 DEF old
    <3>3. \A b \in DOMAIN d.apps : OwnOptions(r, b) \in {OwnOptions(d, b), OwnOptions(d, b) \cup {o}}
      <4>1. \A b \in DOMAIN d.apps : o \notin OwnOptions(d, b)
        BY <1>2, OwnOptionsAre DEF WellFormed
      <4> QED
        BY <2>4, <2>5, <4>1
    <3>4. SameElsewhere(r, d, a)
      <4>1. SameElsewhere(r, e, a)
        BY <2>3 DEF IsRemoved, SameElsewhere
      <4>2. OwnOptions(e, a) = OwnOptions(d, a) \cup {o}
        BY <2>5
      <4> QED
        BY <1>2, <2>1, <2>6, <4>1, <4>2 DEF SameElsewhere, KeepsOptions, AddsOption
    <3> QED
      BY <1>2, <2>4, <3>1, <3>2, <3>3, <3>4 DEF KeepsOptions
  <2>8. r = remove_option(e, a, o)
    BY DEF r
  <2> QED
    BY <2>1, <2>2, <2>7, <2>8, Zenon DEF FlagOutcome
<1>6. ASSUME first.thrown = "none", out = Returns(Set(e, last, flag))
      PROVE  FlagOutcome(out, d, a, o)
  <2>1. AddsOption(e, d, a, o) /\ last = o
    BY <1>3, <1>6 DEF AddsOption
  <2>2. WellFormed(e) /\ o \in DOMAIN e.options
    BY <2>1 DEF AddsOption
  <2> DEFINE old == e.options[o]
             new == [Flag(old) EXCEPT
                       !.fnames = [i \in DOMAIN with |-> FlagName(with[i])],
                       !.flag_values = [i \in DOMAIN with |-> OwnValue(with[i])]]
             f == Set(e, o, new)
  <2>3. out.cli = f /\ out.thrown = "none"
    BY <1>6, <2>1 DEF Returns
  <2> HIDE DEF e, out, with
  <2>4. IsOption(old, DOMAIN e.options)
    BY <2>2, OptionsAre DEF WellFormed
  <2> HIDE DEF old
  <2>5. IsOption(new, DOMAIN e.options)
    <3>1. /\ DOMAIN new = DOMAIN DefaultOption
          /\ new.needs = old.needs /\ new.excludes = old.excludes
          /\ new.type_min = old.type_min /\ new.type_max = old.type_max
          /\ new.exp_min = 0 /\ new.exp_max = 0
      BY <2>4, SizedFieldsAre DEF IsOption, Flag, SizedFields
    <3> HIDE DEF new
    <3> QED
      BY <2>4, <3>1, ModestFacts DEF IsOption, Sized
  <2> HIDE DEF new
  <2>6. OnlyOption(f, e, o)
    BY <2>2, <2>5, SetOnlyOption
  <2> HIDE DEF f
  <2>7. AddsOption(f, d, a, o)
    BY <2>1, <2>6 DEF AddsOption, OnlyOption, OwnOptions, Newest
  <2>8. KeepsOptions(f, d, a, o)
    BY <2>7, AddsKeeps
  <2> QED
    BY <2>3, <2>7, <2>8, Zenon DEF FlagOutcome
<1> QED
  BY <1>1, <1>4, <1>5, <1>6 DEF o
-----------------------------------------------------------------------------
(***************************************************************************)
(* The definition with an option of an app removed and nothing else.       *)
(***************************************************************************)
Removes(w, d, a, x) ==
  /\ WellFormed(w)
  /\ DOMAIN w.apps = DOMAIN d.apps /\ DOMAIN w.options = DOMAIN d.options
  /\ \A b \in DOMAIN d.apps :
       /\ w.apps[b].subs = d.apps[b].subs /\ w.apps[b].parent = d.apps[b].parent
       /\ OwnOptions(w, b) = IF b = a THEN OwnOptions(d, b) \ {x} ELSE OwnOptions(d, b)
  /\ \A p \in OwnOptions(d, a) : x \notin w.options[p].needs \cup w.options[p].excludes
  /\ SameElsewhere(w, d, a)

(***************************************************************************)
(* Removing no option is removing one that does not exist.                 *)
(***************************************************************************)
LEMMA NothingRemoved ==
  ASSUME NEW d, WellFormed(d), NEW a \in DOMAIN d.apps
  PROVE  Removes(d, d, a, NoOption)
<1>1. OwnOptions(d, a) \subseteq DOMAIN d.options /\ DOMAIN d.options \subseteq OptionIds
  BY OwnOptionsAre DEF WellFormed, Shaped
<1>2. \A p \in DOMAIN d.options : d.options[p].needs \cup d.options[p].excludes \subseteq DOMAIN d.options
  BY OptionsAre DEF WellFormed, IsOption
<1> QED
  BY <1>1, <1>2, IdsAssumption DEF Removes, SameElsewhere

(***************************************************************************)
(* That is what remove_option does.                                        *)
(***************************************************************************)
LEMMA RemoveOptionRemoves ==
  ASSUME NEW d, WellFormed(d), NEW a \in DOMAIN d.apps, NEW x
  PROVE  Removes(remove_option(d, a, x), d, a, x)
<1> DEFINE e == remove_option(d, a, x)
<1>1. IsRemoved(e, d, a, x)
  BY RemovedFacts DEF WellFormed
<1>2. WellFormed(e)
      /\ \A b \in DOMAIN d.apps :
           OwnOptions(e, b) = IF b = a THEN OwnOptions(d, b) \ {x} ELSE OwnOptions(d, b)
  BY RemoveOptionWellFormed
<1> HIDE DEF e
<1>3. \A p \in OwnOptions(d, a) : x \notin e.options[p].needs \cup e.options[p].excludes
  <2> SUFFICES ASSUME NEW p \in OwnOptions(d, a)
               PROVE  x \notin e.options[p].needs \cup e.options[p].excludes
    OBVIOUS
  <2> DEFINE old == d.options[p]
  <2>1. p \in DOMAIN d.options
    BY OwnOptionsAre DEF WellFormed
  <2>2. IsOption(old, DOMAIN d.options)
    BY <2>1, OptionsAre DEF WellFormed
  <2>3. e.options[p] = Unlinked(old, x)
    BY <1>1, <2>1 DEF IsRemoved
  <2> HIDE DEF old
  <2>4. Unlinked(old, x).needs = old.needs \ {x} /\ Unlinked(old, x).excludes = old.excludes \ {x}
    BY <2>2, LinksRemoved
  <2> QED
    BY <2>3, <2>4
<1>4. SameElsewhere(e, d, a)
  BY <1>1 DEF IsRemoved, SameElsewhere
<1>5. \A b \in DOMAIN d.apps : e.apps[b].subs = d.apps[b].subs /\ e.apps[b].parent = d.apps[b].parent
  BY <1>1 DEF IsRemoved
<1> QED
  BY <1>1, <1>2, <1>3, <1>4, <1>5 DEF Removes, IsRemoved, e

(***************************************************************************)
(* So is what the setters of a flag do first: the old flag goes.           *)
(***************************************************************************)
LEMMA WithoutRemoves ==
  ASSUME NEW d, WellFormed(d), NEW a \in DOMAIN d.apps, NEW kind \in Kinds
  PROVE  \E x : Removes(Without(d, a, kind), d, a, x)
<1> DEFINE x == d.apps[a][kind]
           w == remove_option(d, a, x)
           e == [w EXCEPT !.apps[a][kind] = NoOption]
<1>1. Without(d, a, kind) = d \/ Without(d, a, kind) = e
  BY DEF Without
<1> HIDE DEF x
<1>2. Removes(w, d, a, x)
  BY RemoveOptionRemoves
<1> HIDE DEF w
<1>3. SameButPointers(e, w, a)
  BY <1>2, PointWellFormed DEF Removes
<1> HIDE DEF e
<1>4. Removes(e, d, a, x)
  BY <1>2, <1>3 DEF Removes, OwnOptions, SameElsewhere, SameButPointers
<1> QED
  BY <1>1, <1>4, NothingRemoved

(***************************************************************************)
(* What they do to a new flag: it is pointed to, and configurable no more. *)
(***************************************************************************)
LEMMA AsKeeps ==
  ASSUME NEW d, WellFormed(d), NEW a \in DOMAIN d.apps, NEW kind \in Kinds,
         NEW o, NEW e, AddsOption(e, d, a, o)
  PROVE  KeepsOptions(As(e, a, kind, o).cli, d, a, o)
<1> DEFINE f == [e EXCEPT !.apps[a][kind] = o]
           old == e.options[o]
           new == [old EXCEPT !.configurable = FALSE,
                     !.throws = IF kind = "version" THEN "CallForVersion" ELSE @]
           g == Set(f, o, new)
<1>1. As(e, a, kind, o).cli = g
  <2>1. old = f.options[o]
    <3>1. DOMAIN e = {"apps", "options", "home"}
      BY DEF AddsOption, WellFormed, Shaped
    <3> QED
      BY <3>1
  <2> QED
    BY DEF As, Returns, Set
<1>2. WellFormed(e) /\ a \in DOMAIN e.apps /\ o \in OwnOptions(e, a) /\ o \in DOMAIN e.options
  BY DEF AddsOption
<1>3. SameButPointers(f, e, a)
  <2>1. o \notin {e.apps[a].help, e.apps[a].help_all}
    <3>1. {d.apps[a].help, d.apps[a].help_all} \subseteq DOMAIN d.options \cup {NoOption}
      BY OwnOptionsAre DEF WellFormed, HelpOwned
    <3>2. e.apps[a].help = d.apps[a].help /\ e.apps[a].help_all = d.apps[a].help_all
      BY AddsKeeps
    <3> QED
      BY <3>1, <3>2, IdsAssumption DEF AddsOption
  <2> QED
    BY <1>2, <2>1, PointWellFormed
<1> HIDE DEF f
<1>4. OnlyOption(g, f, o)
  <2>1. IsOption(old, DOMAIN e.options)
    BY <1>2, OptionsAre DEF WellFormed
  <2> HIDE DEF old
  <2>2. IsOption(new, DOMAIN e.options)
    <3>1. SizedFields \subseteq DOMAIN old
      BY <2>1, SizedFieldsAre DEF IsOption
    <3> QED
      BY <2>1, <3>1 DEF IsOption, Sized, SizedFields
  <2> HIDE DEF new
  <2> QED
    BY <1>2, <1>3, <2>2, SetOnlyOption DEF SameButPointers
<1> HIDE DEF g
<1>5. KeepsOptions(e, d, a, o) /\ DOMAIN e.options = DOMAIN d.options \cup {o}
  BY AddsKeeps DEF AddsOption
<1>6. KeepsOptions(g, d, a, o)
  <2>1. /\ WellFormed(g) /\ DOMAIN g.apps = DOMAIN d.apps /\ DOMAIN g.options = DOMAIN e.options
        /\ \A p \in DOMAIN d.options : g.options[p] = e.options[p]
    BY <1>3, <1>4, <1>5 DEF OnlyOption, SameButPointers, KeepsOptions
  <2>2. \A b \in DOMAIN d.apps :
          /\ g.apps[b].subs = e.apps[b].subs /\ g.apps[b].parent = e.apps[b].parent
          /\ OwnOptions(g, b) = OwnOptions(e, b)
          /\ b # a => g.apps[b] = e.apps[b]
    BY <1>3, <1>4, <1>5 DEF OnlyOption, SameButPointers, KeepsOptions, OwnOptions
  <2>3. SameElsewhere(g, d, a)
    BY <1>5, <2>1, <2>2 DEF SameElsewhere, KeepsOptions
  <2> QED
    BY <1>5, <2>1, <2>2, <2>3 DEF KeepsOptions
<1> QED
  BY <1>1, <1>6

(***************************************************************************)
(* The definition with an option of an app removed, if at all, and then    *)
(* one made in it, if at all: what one call does to the options.           *)
(***************************************************************************)
Replaces(e, d, a) ==
  \E x, w, o : Removes(w, d, a, x) /\ KeepsOptions(e, w, a, o)

(***************************************************************************)
(* Only removing one is a case of it, and leaves room.                     *)
(***************************************************************************)
LEMMA SameReplaces ==
  ASSUME NEW d, WellFormed(d), Room(d, 1), NEW a \in DOMAIN d.apps, NEW w, NEW x,
         Removes(w, d, a, x)
  PROVE  Replaces(w, d, a) /\ WellFormed(w) /\ Room(w, 1) /\ a \in DOMAIN w.apps
<1>1. WellFormed(w) /\ Room(w, 1) /\ a \in DOMAIN w.apps
  BY DEF Removes, Room
<1>2. Unused(OptionIds, w.options) \in OptionIds \ DOMAIN w.options
  BY <1>1, NewOption DEF WellFormed
<1> QED
  BY <1>1, <1>2, SameKeeps DEF Replaces

(***************************************************************************)
(* set_help_flag, set_help_all_flag and set_version_flag.                  *)
(***************************************************************************)
LEMMA SetFlagReplaces ==
  ASSUME NEW d, WellFormed(d), Room(d, 1), NEW a \in DOMAIN d.apps, NEW kind \in Kinds, NEW names
  PROVE  Replaces(set_flag(d, a, kind, names).cli, d, a)
<1> DEFINE w == Without(d, a, kind)
           first == add_flag(w, a, names)
           e == first.cli
           o == Unused(OptionIds, w.options)
<1>1. \/ set_flag(d, a, kind, names).cli = w
      \/ set_flag(d, a, kind, names) = first
      \/ first.thrown = "none" /\ set_flag(d, a, kind, names) = As(e, a, kind, Newest(e, a))
  BY DEF set_flag, Returns, Chain
<1>2. PICK x : Removes(w, d, a, x)
  BY WithoutRemoves
<1> HIDE DEF w
<1>3. Replaces(w, d, a) /\ WellFormed(w) /\ Room(w, 1) /\ a \in DOMAIN w.apps
  BY <1>2, SameReplaces
<1>4. FlagOutcome(first, w, a, o)
  BY <1>3, AddFlagAdds
<1> HIDE DEF first, o
<1>5. KeepsOptions(e, w, a, o)
  BY <1>4 DEF FlagOutcome
<1>6. ASSUME first.thrown = "none"
      PROVE  KeepsOptions(As(e, a, kind, Newest(e, a)).cli, w, a, o)
  <2>1. AddsOption(e, w, a, o) /\ Newest(e, a) = o
    BY <1>4, <1>6 DEF FlagOutcome, AddsOption
  <2> QED
    BY <1>3, <2>1, AsKeeps
<1> QED
  BY <1>1, <1>2, <1>3, <1>5, <1>6 DEF Replaces

(***************************************************************************)
(* set_config.                                                             *)
(***************************************************************************)
LEMMA SetConfigReplaces ==
  ASSUME NEW d, WellFormed(d), Room(d, 1), NEW a \in DOMAIN d.apps, NEW names
  PROVE  Replaces(set_config(d, a, names).cli, d, a)
<1> DEFINE w == Without(d, a, "config")
           first == add_option(w, a, names)
           e == first.cli
           o == Unused(OptionIds, w.options)
<1>1. \/ set_config(d, a, names).cli = w
      \/ set_config(d, a, names) = first
      \/ /\ first.thrown = "none"
         /\ set_config(d, a, names) = As(e, a, "config", Newest(e, a))
  BY DEF set_config, Returns, Chain
<1>2. PICK x : Removes(w, d, a, x)
  BY WithoutRemoves DEF Kinds
<1> HIDE DEF w
<1>3. Replaces(w, d, a) /\ WellFormed(w) /\ Room(w, 1) /\ a \in DOMAIN w.apps
  BY <1>2, SameReplaces
<1>4. (e = w /\ first.thrown # "none") \/ AddsOption(e, w, a, o)
  BY <1>3, AddOptionAdds, Zenon
<1> HIDE DEF first, o
<1>5. AddsOption(e, w, a, o) =>
        KeepsOptions(e, w, a, o) /\ KeepsOptions(As(e, a, "config", Newest(e, a)).cli, w, a, o)
  BY <1>3, AddsKeeps, AsKeeps DEF AddsOption, Kinds
<1> QED
  BY <1>1, <1>2, <1>3, <1>4, <1>5 DEF Replaces

(***************************************************************************)
(* add_option.                                                             *)
(***************************************************************************)
LEMMA AddOptionReplaces ==
  ASSUME NEW d, WellFormed(d), Room(d, 1), NEW a \in DOMAIN d.apps, NEW names
  PROVE  Replaces(add_option(d, a, names).cli, d, a)
<1> DEFINE out == add_option(d, a, names)
           o == Unused(OptionIds, d.options)
<1>1. out.cli = d \/ AddsOption(out.cli, d, a, o)
  BY AddOptionAdds, Zenon
<1> HIDE DEF out, o
<1>2. AddsOption(out.cli, d, a, o) => KeepsOptions(out.cli, d, a, o)
  BY AddsKeeps
<1>3. Removes(d, d, a, NoOption)
  BY NothingRemoved
<1>4. Replaces(d, d, a)
  BY <1>3, SameReplaces
<1>5. Replaces(out.cli, d, a)
  BY <1>1, <1>2, <1>3, <1>4 DEF Replaces
<1> QED
  BY <1>5 DEF out

(***************************************************************************)
(* add_flag.                                                               *)
(***************************************************************************)
LEMMA AddFlagReplaces ==
  ASSUME NEW d, WellFormed(d), Room(d, 1), NEW a \in DOMAIN d.apps, NEW names
  PROVE  Replaces(add_flag(d, a, names).cli, d, a)
BY AddFlagAdds, NothingRemoved DEF FlagOutcome, Replaces

(***************************************************************************)
(* retire_option.                                                          *)
(***************************************************************************)
LEMMA RetireOptionReplaces ==
  ASSUME NEW d, WellFormed(d), Room(d, 1), NEW a \in DOMAIN d.apps, NEW x \in DOMAIN d.options
  PROVE  Replaces(retire_option(d, a, x).cli, d, a)
<1> DEFINE old == d.options[x]
           names == get_name(old)
           w == remove_option(d, a, x)
           first == add_option(w, a, names)
           e == first.cli
           o == Unused(OptionIds, w.options)
           Ignored == [index |-> 0, rejects |-> {}, becomes |-> <<>>]
           ranged(opt) == expected_range(type_sizes(opt, old.type_min, old.type_max),
                                         old.exp_min, old.exp_max)
           Retired(opt) ==
             [ranged(opt) EXCEPT
                !.allow_extra_args = old.allow_extra_args, !.default_str = <<"RETIRED">>,
                !.validators = Append(@, Ignored)]
           last == Set(e, Newest(e, a), Retired(e.options[Newest(e, a)]))
<1>1. \/ retire_option(d, a, x).cli = d
      \/ retire_option(d, a, x) = first
      \/ first.thrown = "none" /\ retire_option(d, a, x).cli = last
  BY DEF retire_option, Returns, Throws, Chain
<1>2. Removes(w, d, a, x)
  BY RemoveOptionRemoves
<1>3. Sized(old)
  BY OptionsAre DEF WellFormed, IsOption
<1> HIDE DEF w, names, old
<1>4. Replaces(w, d, a) /\ WellFormed(w) /\ Room(w, 1) /\ a \in DOMAIN w.apps
  BY <1>2, SameReplaces
<1>5. (e = w /\ first.thrown # "none") \/ AddsOption(e, w, a, o)
  BY <1>4, AddOptionAdds, Zenon
<1> HIDE DEF first, o
<1>6. AddsOption(e, w, a, o) => KeepsOptions(e, w, a, o)
  BY <1>4, AddsKeeps
<1>7. ASSUME AddsOption(e, w, a, o)
      PROVE  KeepsOptions(last, w, a, o)
  <2>1. Newest(e, a) = o /\ WellFormed(e) /\ o \in DOMAIN e.options
    BY <1>7 DEF AddsOption
  <2> DEFINE opt == e.options[o]
             new == Retired(opt)
  <2>2. last = Set(e, o, new)
    BY <2>1
  <2> HIDE DEF e, last
  <2>3. IsOption(opt, DOMAIN e.options)
    BY <2>1, OptionsAre DEF WellFormed
  <2> HIDE DEF opt
  <2>4. IsOption(ranged(opt), DOMAIN e.options)
    <3>1. /\ old.type_min \in Int /\ old.type_max \in Int /\ Modest(Magnitude(old.type_min))
          /\ old.exp_min \in Int /\ old.exp_max \in Int /\ Modest(Magnitude(old.exp_min))
      BY <1>3 DEF Sized, Modest, Magnitude
    <3> DEFINE sized == type_sizes(opt, old.type_min, old.type_max)
    <3>2. IsOption(sized, DOMAIN e.options)
      BY <2>3, <3>1, TypeSizesSized
    <3> HIDE DEF sized
    <3>3. IsOption(expected_range(sized, old.exp_min, old.exp_max), DOMAIN e.options)
      BY <3>1, <3>2, ExpectedRangeSized
    <3> QED
      BY <3>3 DEF sized
  <2> HIDE DEF ranged
  <2>5. IsOption(new, DOMAIN e.options)
    <3> DEFINE r == ranged(opt)
    <3> HIDE DEF r
    <3>1. IsOption(r, DOMAIN e.options) /\ SizedFields \subseteq DOMAIN r
      BY <2>4, SizedFieldsAre DEF IsOption, r
    <3> DEFINE n == [r EXCEPT
                       !.allow_extra_args = old.allow_extra_args, !.default_str = <<"RETIRED">>,
                       !.validators = Append(@, Ignored)]
    <3>2. IsOption(n, DOMAIN e.options)
      BY <3>1 DEF IsOption, Sized, SizedFields
    <3>3. new = n
      BY DEF r
    <3> QED
      BY <3>2, <3>3
  <2> HIDE DEF new
  <2>6. OnlyOption(last, e, o)
    BY <2>1, <2>2, <2>5, SetOnlyOption
  <2>7. AddsOption(last, w, a, o)
    BY <1>7, <2>6 DEF AddsOption, OnlyOption, OwnOptions, Newest
  <2> QED
    BY <1>4, <2>7, AddsKeeps
<1>8. Replaces(d, d, a)
  <2>1. Removes(d, d, a, NoOption)
    BY NothingRemoved
  <2> QED
    BY <2>1, SameReplaces
<1> QED
  BY <1>1, <1>2, <1>4, <1>5, <1>6, <1>7, <1>8 DEF Replaces
-----------------------------------------------------------------------------
(***************************************************************************)
(* No option of an app that stays has a link to one of its app that went.  *)
(***************************************************************************)
LinksGone(e, d) ==
  \A a \in Apps(d) \cap Apps(e) : \A o, p \in OwnOptions(d, a) :
    o \in OwnOptions(e, a) /\ p \notin Options(e)
      => p \notin e.options[o].needs \cup e.options[o].excludes

(***************************************************************************)
(* What every call keeps: the inductive invariant, room for the calls to   *)
(* come, and no links to what is gone.                                     *)
(***************************************************************************)
Keeps(e, d) ==
  /\ WellFormed(e)
  /\ Cardinality(DOMAIN e.apps) <= Cardinality(DOMAIN d.apps) + 1
  /\ Cardinality(DOMAIN e.options) <= Cardinality(DOMAIN d.options) + 2
  /\ LinksGone(e, d)

(***************************************************************************)
(* One identity more makes a set of them larger by one at most.            *)
(***************************************************************************)
LEMMA Counted ==
  ASSUME NEW d, WellFormed(d)
  PROVE  /\ Cardinality(DOMAIN d.apps) \in Nat /\ Cardinality(DOMAIN d.options) \in Nat
         /\ \A id : Cardinality(DOMAIN d.apps \cup {id}) <= Cardinality(DOMAIN d.apps) + 1
         /\ \A id : Cardinality(DOMAIN d.options \cup {id}) <= Cardinality(DOMAIN d.options) + 1
<1>1. IsFiniteSet(DOMAIN d.apps) /\ IsFiniteSet(DOMAIN d.options)
  BY IdsAssumption, FS_Subset DEF WellFormed, Shaped
<1>2. \A S, id : IsFiniteSet(S) =>
        Cardinality(S) \in Nat /\ Cardinality(S \cup {id}) <= Cardinality(S) + 1
  <2> SUFFICES ASSUME NEW S, NEW id, IsFiniteSet(S)
               PROVE  Cardinality(S) \in Nat /\ Cardinality(S \cup {id}) <= Cardinality(S) + 1
    OBVIOUS
  <2>1. Cardinality(S) \in Nat
    BY FS_CardinalityType
  <2>2. Cardinality(S \cup {id}) = IF id \in S THEN Cardinality(S) ELSE Cardinality(S) + 1
    BY FS_AddElement
  <2> QED
    BY <2>1, <2>2
<1> QED
  BY <1>1, <1>2

(***************************************************************************)
(* Nothing is lost by an app that stays: so no links to it can remain.     *)
(***************************************************************************)
LEMMA NothingLost ==
  ASSUME NEW d, NEW e,
         \A a \in Apps(d) \cap Apps(e) : OwnOptions(d, a) \subseteq OwnOptions(e, a)
  PROVE  LinksGone(e, d)
BY DEF LinksGone, Options

(***************************************************************************)
(* The apps of a program.                                                  *)
(***************************************************************************)
LEMMA AppsAre ==
  ASSUME NEW d, WellFormed(d)
  PROVE  Apps(d) \subseteq DOMAIN d.apps /\ Root \in Apps(d) /\ Closed(d, Apps(d))
BY BelowFacts DEF WellFormed, Shaped, Apps

(***************************************************************************)
(* A call about the options of one app, at least, keeps all that.          *)
(***************************************************************************)
LEMMA ReplacesKeeps ==
  ASSUME NEW d, WellFormed(d), NEW a \in DOMAIN d.apps, NEW e, Replaces(e, d, a)
  PROVE  Keeps(e, d)
<1>1. PICK x, w, o : Removes(w, d, a, x) /\ KeepsOptions(e, w, a, o)
  BY DEF Replaces
<1>2. DOMAIN w.options = DOMAIN d.options /\ DOMAIN e.apps = DOMAIN d.apps
  BY <1>1 DEF Removes, KeepsOptions
<1>3. /\ Cardinality(DOMAIN e.apps) <= Cardinality(DOMAIN d.apps) + 1
      /\ Cardinality(DOMAIN e.options) <= Cardinality(DOMAIN d.options) + 2
  <2>1. DOMAIN e.options \in {DOMAIN d.options, DOMAIN d.options \cup {o}}
    BY <1>1, <1>2 DEF KeepsOptions
  <2>2. /\ Cardinality(DOMAIN d.apps) \in Nat /\ Cardinality(DOMAIN d.options) \in Nat
        /\ Cardinality(DOMAIN d.options \cup {o}) <= Cardinality(DOMAIN d.options) + 1
    BY Counted
  <2>3. CASE DOMAIN e.options = DOMAIN d.options
    BY <1>2, <2>2, <2>3
  <2>4. CASE DOMAIN e.options = DOMAIN d.options \cup {o}
    <3>1. Cardinality(DOMAIN e.options) <= Cardinality(DOMAIN d.options) + 1
      BY <2>2, <2>4
    <3>2. Cardinality(DOMAIN e.options) \in Nat
      BY <1>1, Counted DEF KeepsOptions
    <3> QED
      BY <1>2, <2>2, <3>1, <3>2
  <2> QED
    BY <2>1, <2>3, <2>4
<1>4. LinksGone(e, d)
  <2> SUFFICES ASSUME NEW b \in Apps(d), b \in Apps(e), NEW q \in OwnOptions(d, b),
                      NEW p \in OwnOptions(d, b), q \in OwnOptions(e, b), p \notin Options(e)
               PROVE  p \notin e.options[q].needs \cup e.options[q].excludes
    BY DEF LinksGone
  <2>1. p \notin OwnOptions(e, b)
    BY DEF Options
  <2>2. b \in DOMAIN d.apps /\ q \in DOMAIN d.options
    BY AppsAre, OwnOptionsAre DEF WellFormed
  <2>3. p \notin OwnOptions(w, b)
    BY <1>1, <2>1, <2>2 DEF KeepsOptions, Removes
  <2>4. b = a /\ p = x
    BY <1>1, <2>2, <2>3 DEF Removes
  <2>5. p \notin w.options[q].needs \cup w.options[q].excludes
    BY <1>1, <2>4 DEF Removes
  <2>6. /\ e.options[q].needs \subseteq w.options[q].needs
        /\ e.options[q].excludes \subseteq w.options[q].excludes
    BY <1>1, <1>2, <2>2 DEF KeepsOptions
  <2> QED
    BY <2>5, <2>6
<1> QED
  BY <1>1, <1>3, <1>4 DEF Keeps, KeepsOptions

(***************************************************************************)
(* The options of a program.                                               *)
(***************************************************************************)
LEMMA OptionsOfApps ==
  ASSUME NEW d, WellFormed(d)
  PROVE  Options(d) \subseteq DOMAIN d.options
BY AppsAre, OwnOptionsAre DEF WellFormed, Options

(***************************************************************************)
(* So does one that makes no app and no option, and takes none away.       *)
(***************************************************************************)
LEMMA SameThingsKeep ==
  ASSUME NEW d, WellFormed(d), NEW e, WellFormed(e),
         DOMAIN e.apps = DOMAIN d.apps, DOMAIN e.options = DOMAIN d.options,
         \A b \in DOMAIN d.apps : OwnOptions(d, b) \subseteq OwnOptions(e, b)
  PROVE  Keeps(e, d)
<1>1. LinksGone(e, d)
  BY AppsAre, NothingLost
<1> QED
  BY <1>1, Counted DEF Keeps

(***************************************************************************)
(* So does one that changes one option.                                    *)
(***************************************************************************)
LEMMA OnlyOptionKeeps ==
  ASSUME NEW d, WellFormed(d), NEW o, NEW e, OnlyOption(e, d, o)
  PROVE  Keeps(e, d)
BY SameThingsKeep DEF OnlyOption, OwnOptions

(***************************************************************************)
(* An option with other links is one still.                                *)
(***************************************************************************)
LEMMA LinkedIsOption ==
  ASSUME NEW opt, NEW ids, IsOption(opt, ids), NEW linked \in SUBSET ids
  PROVE  /\ IsOption([opt EXCEPT !.needs = linked], ids)
         /\ IsOption([opt EXCEPT !.excludes = linked], ids)
<1>1. SizedFields \subseteq DOMAIN opt
  BY SizedFieldsAre DEF IsOption
<1> QED
  BY <1>1 DEF IsOption, Sized, SizedFields

(***************************************************************************)
(* Option::excludes, which changes the other option, too.                  *)
(***************************************************************************)
LEMMA ExcludesKeeps ==
  ASSUME NEW d, WellFormed(d), NEW o \in DOMAIN d.options, NEW p \in DOMAIN d.options
  PROVE  /\ Keeps(excludes(d, o, p).cli, d)
         /\ excludes(d, o, p).thrown # "none" => excludes(d, o, p).cli = d
<1> DEFINE old == d.options[o]
           other == d.options[p]
           new == [old EXCEPT !.excludes = old.excludes \cup {p}]
           changed == [other EXCEPT !.excludes = other.excludes \cup {o}]
           e == Set(d, o, new)
           f == Set(e, p, changed)
<1>1. IsOption(old, DOMAIN d.options) /\ IsOption(other, DOMAIN d.options)
  BY OptionsAre DEF WellFormed
<1>2. IsOption(new, DOMAIN d.options) /\ IsOption(changed, DOMAIN d.options)
  <2> HIDE DEF old, other
  <2>1. old.excludes \cup {p} \in SUBSET DOMAIN d.options
        /\ other.excludes \cup {o} \in SUBSET DOMAIN d.options
    BY <1>1 DEF IsOption
  <2> QED
    BY <1>1, <2>1, LinkedIsOption
<1>3. CASE o = p
  BY <1>3, SameThingsKeep DEF excludes, Throws
<1>4. CASE o # p
  <2>1. excludes(d, o, p) = Returns(f)
    BY <1>4 DEF excludes, Set, WellFormed, Shaped
  <2> HIDE DEF new, changed
  <2>2. OnlyOption(e, d, o)
    BY <1>2, SetOnlyOption
  <2> HIDE DEF e
  <2>3. OnlyOption(f, e, p)
    BY <1>2, <2>2, SetOnlyOption DEF OnlyOption
  <2> HIDE DEF f
  <2>4. Keeps(f, d)
    BY <2>2, <2>3, SameThingsKeep DEF OnlyOption, OwnOptions
  <2> QED
    BY <2>1, <2>4 DEF Returns
<1> QED
  BY <1>3, <1>4
-----------------------------------------------------------------------------
(***************************************************************************)
(* A change of apps by which nothing goes to another place.                *)
(***************************************************************************)
SamePlaces(e, d) ==
  /\ WellFormed(e)
  /\ DOMAIN e.apps = DOMAIN d.apps /\ e.options = d.options /\ e.home = d.home
  /\ \A a \in DOMAIN d.apps :
       Subs(e, a) = Subs(d, a) /\ OwnOptions(e, a) = OwnOptions(d, a)

LEMMA SamePlacesKeep ==
  ASSUME NEW d, WellFormed(d), NEW e, SamePlaces(e, d)
  PROVE  Keeps(e, d)
BY SameThingsKeep DEF SamePlaces

(***************************************************************************)
(* A change of one app that leaves its ties alone.                         *)
(***************************************************************************)
LEMMA SetAppKeeps ==
  ASSUME NEW d, WellFormed(d), NEW a \in DOMAIN d.apps, NEW app, SameTies(app, d.apps[a])
  PROVE  SamePlaces([d EXCEPT !.apps[a] = app], d)
<1> DEFINE e == [d EXCEPT !.apps[a] = app]
<1>1. OnlyApp(e, d, a, app)
  BY SetAppWellFormed
<1> HIDE DEF e
<1>2. SamePlaces(e, d)
  BY <1>1 DEF SamePlaces, OnlyApp, Subs, OwnOptions, SameTies
<1> QED
  BY <1>2 DEF e

(* What an app can be changed in without a change of its ties.             *)
TiedFields == {"subs", "options", "parent", "help", "help_all", "exclude_subs"}

LEMMA OtherFieldKeepsTies ==
  ASSUME NEW app, DOMAIN app = DOMAIN DefaultApp, NEW field, field \notin TiedFields, NEW value
  PROVE  SameTies([app EXCEPT ![field] = value], app)
<1>1. TiedFields \subseteq DOMAIN app
  BY DEF DefaultApp, TiedFields
<1> QED
  BY <1>1 DEF SameTies, TiedFields

(***************************************************************************)
(* A change of an app that is taken back when the parent has another       *)
(* subcommand of that name (_compare_subcommand_names).                    *)
(***************************************************************************)
LEMMA UnlessKeeps ==
  ASSUME NEW d, WellFormed(d), NEW a \in DOMAIN d.apps, NEW app, SameTies(app, d.apps[a])
  PROVE  /\ SamePlaces(Unless(d, a, app).cli, d)
         /\ Unless(d, a, app).thrown # "none" => Unless(d, a, app).cli = d
<1> DEFINE e == [d EXCEPT !.apps[a] = app]
<1>1. Unless(d, a, app) = Throws(d, "OptionAlreadyAdded") \/ Unless(d, a, app) = Returns(e)
  BY DEF Unless
<1>2. SamePlaces(e, d)
  BY SetAppKeeps
<1>3. SamePlaces(d, d)
  BY DEF SamePlaces
<1> HIDE DEF e
<1> QED
  BY <1>1, <1>2, <1>3 DEF Throws, Returns

(***************************************************************************)
(* App::name.                                                              *)
(***************************************************************************)
LEMMA SetNameKeeps ==
  ASSUME NEW d, WellFormed(d), NEW a \in DOMAIN d.apps, NEW n
  PROVE  /\ SamePlaces(set_name(d, a, n).cli, d)
         /\ set_name(d, a, n).thrown # "none" => set_name(d, a, n).cli = d
<1> DEFINE named == [d.apps[a] EXCEPT !.name = n]
           e == [d EXCEPT !.apps[a] = named]
<1>1. set_name(d, a, n) = Returns(e) \/ set_name(d, a, n) = Unless(d, a, named)
  BY DEF set_name
<1>2. SameTies(named, d.apps[a])
  BY OtherFieldKeepsTies DEF WellFormed, Shaped, TiedFields
<1> HIDE DEF named
<1>3. SamePlaces(e, d)
  BY <1>2, SetAppKeeps
<1> HIDE DEF e
<1> QED
  BY <1>1, <1>2, <1>3, UnlessKeeps DEF Returns

(***************************************************************************)
(* App::alias.                                                             *)
(***************************************************************************)
LEMMA AliasKeeps ==
  ASSUME NEW d, WellFormed(d), NEW a \in DOMAIN d.apps, NEW n
  PROVE  /\ SamePlaces(alias(d, a, n).cli, d)
         /\ alias(d, a, n).thrown # "none" => alias(d, a, n).cli = d
<1> DEFINE aliased == [d.apps[a] EXCEPT !.aliases = Append(@, n)]
           e == [d EXCEPT !.apps[a] = aliased]
<1>1. \/ alias(d, a, n) = Throws(d, "IncorrectConstruction")
      \/ alias(d, a, n) = Returns(e)
      \/ alias(d, a, n) = Unless(d, a, aliased)
  BY DEF alias
<1>2. SameTies(aliased, d.apps[a])
  BY OtherFieldKeepsTies DEF WellFormed, Shaped, TiedFields
<1> HIDE DEF aliased
<1>3. SamePlaces(e, d)
  BY <1>2, SetAppKeeps
<1>4. SamePlaces(d, d)
  BY DEF SamePlaces
<1> HIDE DEF e
<1> QED
  BY <1>1, <1>2, <1>3, <1>4, UnlessKeeps DEF Returns, Throws

(***************************************************************************)
(* App::ignore_case and ignore_underscore.                                 *)
(***************************************************************************)
LEMMA AppIgnoresKeeps ==
  ASSUME NEW d, WellFormed(d), NEW a \in DOMAIN d.apps, NEW what \in Ignorable, NEW value
  PROVE  /\ SamePlaces(app_ignores(d, a, what, value).cli, d)
         /\ app_ignores(d, a, what, value).thrown # "none"
              => app_ignores(d, a, what, value).cli = d
<1> DEFINE changed == [d.apps[a] EXCEPT ![what] = value]
           e == [d EXCEPT !.apps[a] = changed]
<1>1. \/ app_ignores(d, a, what, value) = Returns(e)
      \/ app_ignores(d, a, what, value) = Unless(d, a, changed)
  BY DEF app_ignores
<1>2. SameTies(changed, d.apps[a])
  BY OtherFieldKeepsTies DEF WellFormed, Shaped, TiedFields, Ignorable
<1> HIDE DEF changed
<1>3. SamePlaces(e, d)
  BY <1>2, SetAppKeeps
<1> HIDE DEF e
<1> QED
  BY <1>1, <1>2, <1>3, UnlessKeeps DEF Returns

(***************************************************************************)
(* A change of nothing but which subcommands exclude each other.           *)
(***************************************************************************)
OnlyExclusions(e, d) ==
  /\ DOMAIN e = DOMAIN d /\ e.options = d.options /\ e.home = d.home
  /\ DOMAIN e.apps = DOMAIN d.apps
  /\ \A c \in DOMAIN d.apps :
       /\ DOMAIN e.apps[c] = DOMAIN d.apps[c]
       /\ e.apps[c].subs = d.apps[c].subs /\ e.apps[c].options = d.apps[c].options
       /\ e.apps[c].parent = d.apps[c].parent
       /\ e.apps[c].help = d.apps[c].help /\ e.apps[c].help_all = d.apps[c].help_all
       /\ e.apps[c].exclude_subs \subseteq DOMAIN d.apps
  /\ Symmetric(e)

LEMMA ExclusionsKeep ==
  ASSUME NEW d, WellFormed(d), NEW e, OnlyExclusions(e, d)
  PROVE  SamePlaces(e, d)
<1>1. Shaped(e)
  BY DEF OnlyExclusions, WellFormed, Shaped
<1>2. WellFormed(e)
  BY <1>1, SameStructure DEF OnlyExclusions
<1> QED
  BY <1>2 DEF SamePlaces, OnlyExclusions, Subs, OwnOptions

(***************************************************************************)
(* The subcommands that enable or disable others (TriggerOn, TriggerOff).  *)
(***************************************************************************)
LEMMA TriggerKeeps ==
  ASSUME NEW d, WellFormed(d), NEW a \in DOMAIN d.apps, NEW b \in DOMAIN d.apps, NEW startup
  PROVE  SamePlaces(trigger(d, a, b, startup), d)
<1>1. /\ DOMAIN d = {"apps", "options", "home"}
      /\ \A c \in DOMAIN d.apps : /\ DOMAIN d.apps[c] = DOMAIN DefaultApp
                                  /\ d.apps[c].exclude_subs \subseteq DOMAIN d.apps
  BY DEF WellFormed, Shaped
<1>2. /\ TiedFields \subseteq DOMAIN DefaultApp
      /\ {"startup", "pre_parse", "enables", "disables"} \cap TiedFields = {}
  BY DEF DefaultApp, TiedFields
<1> DEFINE e == trigger(d, a, b, startup)
<1>3. /\ DOMAIN e = DOMAIN d /\ e.options = d.options /\ e.home = d.home
      /\ DOMAIN e.apps = DOMAIN d.apps
      /\ \A c \in DOMAIN d.apps : SameTies(e.apps[c], d.apps[c])
  BY <1>1, <1>2 DEF trigger, SameTies, TiedFields
<1> HIDE DEF e
<1>4. OnlyExclusions(e, d)
  BY <1>1, <1>3 DEF OnlyExclusions, SameTies, WellFormed, Symmetric
<1>5. SamePlaces(e, d)
  BY <1>4, ExclusionsKeep
<1> QED
  BY <1>5 DEF e

(***************************************************************************)
(* App::excludes, of a subcommand: each excludes the other.                *)
(***************************************************************************)
LEMMA AppExcludesKeeps ==
  ASSUME NEW d, WellFormed(d), NEW a \in DOMAIN d.apps, NEW b \in DOMAIN d.apps
  PROVE  /\ SamePlaces(app_excludes(d, a, b).cli, d)
         /\ app_excludes(d, a, b).thrown # "none" => app_excludes(d, a, b).cli = d
<1> DEFINE e == [d EXCEPT !.apps[a].exclude_subs = @ \cup {b},
                          !.apps[b].exclude_subs = @ \cup {a}]
<1>1. \/ app_excludes(d, a, b) = Throws(d, "OptionNotFound")
      \/ app_excludes(d, a, b) = Returns(d)
      \/ a # b /\ app_excludes(d, a, b) = Returns(e)
  BY DEF app_excludes
<1>2. ASSUME a # b
      PROVE  SamePlaces(e, d)
  <2>1. /\ DOMAIN d = {"apps", "options", "home"}
        /\ \A c \in DOMAIN d.apps : /\ DOMAIN d.apps[c] = DOMAIN DefaultApp
                                    /\ d.apps[c].exclude_subs \subseteq DOMAIN d.apps
    BY DEF WellFormed, Shaped
  <2>2. TiedFields \subseteq DOMAIN DefaultApp
    BY DEF DefaultApp, TiedFields
  <2>3. /\ DOMAIN e = DOMAIN d /\ e.options = d.options /\ e.home = d.home
        /\ DOMAIN e.apps = DOMAIN d.apps
        /\ \A c \in DOMAIN d.apps :
             /\ DOMAIN e.apps[c] = DOMAIN d.apps[c]
             /\ e.apps[c].subs = d.apps[c].subs /\ e.apps[c].options = d.apps[c].options
             /\ e.apps[c].parent = d.apps[c].parent
             /\ e.apps[c].help = d.apps[c].help /\ e.apps[c].help_all = d.apps[c].help_all
             /\ e.apps[c].exclude_subs =
                  d.apps[c].exclude_subs
                    \cup (IF c = a THEN {b} ELSE IF c = b THEN {a} ELSE {})
    BY <1>2, <2>1, <2>2 DEF TiedFields
  <2> HIDE DEF e
  <2>4. Symmetric(e)
    BY <2>3 DEF WellFormed, Symmetric
  <2>5. OnlyExclusions(e, d)
    BY <2>1, <2>3, <2>4 DEF OnlyExclusions
  <2> QED
    BY <2>5, ExclusionsKeep
<1>3. SamePlaces(d, d)
  BY DEF SamePlaces
<1> HIDE DEF e
<1> QED
  BY <1>1, <1>2, <1>3 DEF Returns, Throws

(***************************************************************************)
(* App::remove_excludes, of a subcommand.                                  *)
(***************************************************************************)
LEMMA AppRemoveExcludesKeeps ==
  ASSUME NEW d, WellFormed(d), NEW a \in DOMAIN d.apps, NEW b \in DOMAIN d.apps
  PROVE  SamePlaces(app_remove_excludes(d, a, b), d)
<1> DEFINE e == app_remove_excludes(d, a, b)
<1>1. /\ DOMAIN d = {"apps", "options", "home"}
      /\ \A c \in DOMAIN d.apps : /\ DOMAIN d.apps[c] = DOMAIN DefaultApp
                                  /\ d.apps[c].exclude_subs \subseteq DOMAIN d.apps
  BY DEF WellFormed, Shaped
<1>2. TiedFields \subseteq DOMAIN DefaultApp
  BY DEF DefaultApp, TiedFields
<1>3. /\ DOMAIN e = DOMAIN d /\ e.options = d.options /\ e.home = d.home
      /\ DOMAIN e.apps = DOMAIN d.apps
      /\ \A c \in DOMAIN d.apps :
           /\ DOMAIN e.apps[c] = DOMAIN d.apps[c]
           /\ e.apps[c].subs = d.apps[c].subs /\ e.apps[c].options = d.apps[c].options
           /\ e.apps[c].parent = d.apps[c].parent
           /\ e.apps[c].help = d.apps[c].help /\ e.apps[c].help_all = d.apps[c].help_all
           /\ e.apps[c].exclude_subs =
                d.apps[c].exclude_subs
                  \ ((IF c = a THEN {b} ELSE {})
                       \cup (IF c = b /\ b \in d.apps[a].exclude_subs THEN {a} ELSE {}))
  BY <1>1, <1>2 DEF app_remove_excludes, TiedFields
<1> HIDE DEF e
<1>4. Symmetric(e)
  BY <1>3 DEF WellFormed, Symmetric
<1>5. OnlyExclusions(e, d)
  BY <1>1, <1>3, <1>4 DEF OnlyExclusions
<1>6. SamePlaces(e, d)
  BY <1>5, ExclusionsKeep
<1> QED
  BY <1>6 DEF e
-----------------------------------------------------------------------------
(***************************************************************************)
(* An app of the program, but for its root, is below its parent.           *)
(***************************************************************************)
LEMMA ParentIs ==
  ASSUME NEW d, WellFormed(d), NEW g \in Apps(d), g # Root
  PROVE  /\ d.apps[g].parent \in Apps(d) /\ g \in Subs(d, d.apps[g].parent)
         /\ d.apps[g].parent # g
<1> DEFINE S == Apps(d) \ {g}
<1>1. \E b \in Apps(d) : g \in Subs(d, b)
  <2> SUFFICES ASSUME \A b \in Apps(d) : g \notin Subs(d, b) PROVE FALSE
    OBVIOUS
  <2>1. S \in SUBSET DOMAIN d.apps /\ Root \in S
    BY AppsAre
  <2>2. Closed(d, S)
    BY AppsAre DEF Closed
  <2>3. Below(d, Root) \subseteq S
    BY <2>1, <2>2, BelowFacts DEF WellFormed, Shaped
  <2> QED
    BY <2>3 DEF Apps
<1>2. PICK b \in Apps(d) : g \in Subs(d, b)
  BY <1>1
<1>3. b \in DOMAIN d.apps /\ g \in DOMAIN d.apps
  BY AppsAre
<1>4. d.apps[g].parent = b
  BY <1>2, <1>3 DEF WellFormed, Placed, Subs
<1>5. b # g
  <2>1. {g} \in SUBSET DOMAIN d.apps /\ {g} # {}
    BY <1>3
  <2>2. Subs(d, g) \cap {g} = {}
    BY <2>1 DEF WellFormed, NoCycle, Subs
  <2> QED
    BY <1>2, <2>2
<1> QED
  BY <1>2, <1>4, <1>5

(***************************************************************************)
(* Apps whose subcommands are the same have the same below them, whatever  *)
(* is added elsewhere.                                                     *)
(***************************************************************************)
LEMMA SameSubsSameBelow ==
  ASSUME NEW d, WellFormed(d), NEW e, WellFormed(e), DOMAIN d.apps \subseteq DOMAIN e.apps,
         \A b \in DOMAIN d.apps : Subs(e, b) = Subs(d, b),
         NEW a \in DOMAIN d.apps
  PROVE  Below(e, a) = Below(d, a)
<1>1. /\ a \in Below(d, a) /\ Below(d, a) \subseteq DOMAIN d.apps /\ Closed(d, Below(d, a))
      /\ \A S \in SUBSET DOMAIN d.apps : a \in S /\ Closed(d, S) => Below(d, a) \subseteq S
  BY BelowFacts DEF WellFormed
<1>2. /\ a \in Below(e, a) /\ Below(e, a) \subseteq DOMAIN e.apps /\ Closed(e, Below(e, a))
      /\ \A S \in SUBSET DOMAIN e.apps : a \in S /\ Closed(e, S) => Below(e, a) \subseteq S
  BY BelowFacts DEF WellFormed
<1>3. Below(e, a) \subseteq Below(d, a)
  <2>1. Closed(e, Below(d, a))
    BY <1>1 DEF Closed
  <2> QED
    BY <1>1, <1>2, <2>1
<1>4. Below(d, a) \subseteq Below(e, a)
  <2>1. Closed(d, Below(e, a))
    BY <1>1, <1>2, <1>3 DEF Closed
  <2>2. Below(e, a) \in SUBSET DOMAIN d.apps
    BY <1>1, <1>3
  <2> QED
    BY <1>1, <1>2, <2>1, <2>2
<1> QED
  BY <1>3, <1>4

(***************************************************************************)
(* What is changed by add_option of a group: the option is in the group    *)
(* afterwards and in its parent no more.                                   *)
(***************************************************************************)
IsMoved(e, d, a, g, o) ==
  /\ WellFormed(e)
  /\ DOMAIN e.apps = DOMAIN d.apps /\ e.options = d.options /\ e.home = d.home
  /\ \A c \in DOMAIN d.apps :
       /\ Subs(e, c) = Subs(d, c)
       /\ OwnOptions(e, c) = IF c = a THEN OwnOptions(d, c) \ {o}
                             ELSE IF c = g THEN OwnOptions(d, c) \cup {o} ELSE OwnOptions(d, c)

LEMMA OptionMoves ==
  ASSUME NEW d, WellFormed(d), NEW a \in DOMAIN d.apps, NEW g \in DOMAIN d.apps, a # g,
         NEW o \in OwnOptions(d, a), o \notin {d.apps[a].help, d.apps[a].help_all}
  PROVE  IsMoved([d EXCEPT !.apps[g].options = Append(@, o),
                           !.apps[a].options = RemoveFirst(@, o)], d, a, g, o)
<1> DEFINE e == [d EXCEPT !.apps[g].options = Append(@, o), !.apps[a].options = RemoveFirst(@, o)]
<1> DEFINE lost == d.apps[a].options
           won == d.apps[g].options
           rest == RemoveFirst(lost, o)
           more == Append(won, o)
<1>1. /\ DOMAIN d = {"apps", "options", "home"}
      /\ \A c \in DOMAIN d.apps : DOMAIN d.apps[c] = DOMAIN DefaultApp
  BY DEF WellFormed, Shaped
<1>2. TiedFields \subseteq DOMAIN DefaultApp
  BY DEF DefaultApp, TiedFields
<1>3. /\ DOMAIN e = DOMAIN d /\ e.options = d.options /\ e.home = d.home
      /\ DOMAIN e.apps = DOMAIN d.apps
      /\ \A c \in DOMAIN d.apps :
           /\ DOMAIN e.apps[c] = DOMAIN d.apps[c]
           /\ e.apps[c].options =
                IF c = a THEN rest ELSE IF c = g THEN more ELSE d.apps[c].options
           /\ e.apps[c].subs = d.apps[c].subs /\ e.apps[c].parent = d.apps[c].parent
           /\ e.apps[c].help = d.apps[c].help /\ e.apps[c].help_all = d.apps[c].help_all
           /\ e.apps[c].exclude_subs = d.apps[c].exclude_subs
  BY <1>1, <1>2 DEF TiedFields
<1> HIDE DEF e
<1>4. /\ lost \in Seq(DOMAIN d.options) /\ IsInjective(lost)
      /\ won \in Seq(DOMAIN d.options) /\ IsInjective(won)
      /\ o \in DOMAIN d.options /\ o \notin Range(won)
  <2>1. OwnOptions(d, a) \cap OwnOptions(d, g) = {}
    BY DEF WellFormed, Placed
  <2>2. o \in DOMAIN d.options /\ o \notin Range(won)
    BY <2>1, OwnOptionsAre DEF WellFormed, OwnOptions
  <2> QED
    BY <2>2 DEF WellFormed, Shaped, Placed
<1>5. /\ rest \in Seq(DOMAIN d.options) /\ IsInjective(rest) /\ Range(rest) = Range(lost) \ {o}
      /\ more \in Seq(DOMAIN d.options) /\ IsInjective(more) /\ Range(more) = Range(won) \cup {o}
  <2> HIDE DEF lost, won
  <2> QED
    BY <1>4, Removed, Appended
<1> HIDE DEF rest, more
<1>6. \A c \in DOMAIN d.apps :
        OwnOptions(e, c) = IF c = a THEN OwnOptions(d, c) \ {o}
                           ELSE IF c = g THEN OwnOptions(d, c) \cup {o} ELSE OwnOptions(d, c)
  BY <1>3, <1>5 DEF OwnOptions
<1>7. Shaped(e)
  BY <1>3, <1>5 DEF WellFormed, Shaped
<1>8. Placed(e)
  <2>1. \A b \in DOMAIN d.apps : Range(d.apps[b].subs) \subseteq DOMAIN d.apps
    BY SubsAreApps DEF Subs, WellFormed
  <2>2. \A b \in DOMAIN d.apps :
          /\ IsInjective(e.apps[b].subs) /\ IsInjective(e.apps[b].options)
          /\ \A sub \in Range(e.apps[b].subs) : e.apps[sub].parent = b
    BY <1>3, <1>5, <2>1 DEF WellFormed, Placed
  <2>3. e.apps[Root].parent = NoApp
    BY <1>3 DEF WellFormed, Placed, Shaped
  <2>4. \A b, c \in DOMAIN d.apps : b # c => OwnOptions(d, b) \cap OwnOptions(d, c) = {}
    BY DEF WellFormed, Placed
  <2>5. \A b, c \in DOMAIN d.apps : b # c => OwnOptions(e, b) \cap OwnOptions(e, c) = {}
    BY <1>6, <2>4
  <2> QED
    BY <1>3, <2>2, <2>3, <2>5 DEF Placed
<1>9. NoCycle(e) /\ Symmetric(e)
  BY <1>3 DEF WellFormed, NoCycle, Symmetric
<1>10. \A c \in DOMAIN e.apps : HelpOwned(e, c)
  <2> SUFFICES ASSUME NEW c \in DOMAIN d.apps PROVE HelpOwned(e, c)
    BY <1>3
  <2>1. HelpOwned(d, c) /\ e.apps[c].help = d.apps[c].help /\ e.apps[c].help_all = d.apps[c].help_all
    BY <1>3 DEF WellFormed
  <2>2. c = a \/ OwnOptions(d, c) \subseteq OwnOptions(e, c)
    BY <1>6
  <2>3. OwnOptions(e, a) = OwnOptions(d, a) \ {o}
    BY <1>6
  <2> QED
    BY <2>1, <2>2, <2>3 DEF HelpOwned
<1>11. WellFormed(e)
  BY <1>7, <1>8, <1>9, <1>10 DEF WellFormed
<1>12. IsMoved(e, d, a, g, o)
  BY <1>3, <1>6, <1>11 DEF IsMoved, Subs
<1> QED
  BY <1>12 DEF e

(***************************************************************************)
(* The call is a change like that, or an error.                            *)
(***************************************************************************)
LEMMA MoveOptionIs ==
  ASSUME NEW d, WellFormed(d), NEW g \in Apps(d), g # Root, NEW o
  PROVE  LET a == d.apps[g].parent IN
         /\ a \in Apps(d) /\ g \in Apps(d) /\ a # g
         /\ \/ move_option(d, g, o).thrown # "none" /\ move_option(d, g, o).cli = d
            \/ /\ move_option(d, g, o).thrown = "none"
               /\ o \in OwnOptions(d, a) /\ ~AlreadyIn(d, g, d.options[o], {})
               /\ IsMoved(move_option(d, g, o).cli, d, a, g, o)
<1> DEFINE a == d.apps[g].parent
           e == [d EXCEPT !.apps[g].options = Append(@, o), !.apps[a].options = RemoveFirst(@, o)]
           out == move_option(d, g, o)
<1>1. \/ out.thrown # "none" /\ out.cli = d
      \/ /\ o \in OwnOptions(d, a) /\ o \notin {d.apps[a].help, d.apps[a].help_all}
         /\ ~AlreadyIn(d, g, d.options[o], {})
         /\ out.thrown = "none" /\ out.cli = e
  BY DEF move_option, Returns, Throws
<1> HIDE DEF out
<1>2. a \in Apps(d) /\ a # g
  BY ParentIs
<1>3. g \in DOMAIN d.apps /\ a \in DOMAIN d.apps
  BY <1>2, AppsAre
<1>4. ASSUME o \in OwnOptions(d, a), o \notin {d.apps[a].help, d.apps[a].help_all}
      PROVE  IsMoved(e, d, a, g, o)
  <2> HIDE DEF a
  <2> QED
    BY <1>2, <1>3, <1>4, OptionMoves
<1> HIDE DEF e
<1> QED
  BY <1>1, <1>2, <1>4 DEF out

LEMMA MoveOptionKeeps ==
  ASSUME NEW d, WellFormed(d), NEW g \in Apps(d), g # Root, NEW o \in Options(d)
  PROVE  /\ Keeps(move_option(d, g, o).cli, d)
         /\ move_option(d, g, o).thrown # "none" => move_option(d, g, o).cli = d
<1> DEFINE a == d.apps[g].parent
           e == move_option(d, g, o).cli
<1>1. /\ a \in Apps(d) /\ a # g
      /\ \/ move_option(d, g, o).thrown # "none" /\ e = d
         \/ move_option(d, g, o).thrown = "none" /\ IsMoved(e, d, a, g, o)
  BY MoveOptionIs
<1> HIDE DEF a, e
<1>2. ASSUME IsMoved(e, d, a, g, o)
      PROVE  Keeps(e, d)
  <2>1. /\ WellFormed(e) /\ DOMAIN e.apps = DOMAIN d.apps /\ e.options = d.options
        /\ \A c \in DOMAIN d.apps :
             /\ Subs(e, c) = Subs(d, c)
             /\ OwnOptions(d, c) \subseteq OwnOptions(e, c) \cup {o}
    BY <1>2 DEF IsMoved
  <2>2. Apps(e) = Apps(d)
    BY <2>1, SameSubsSameBelow DEF Apps, WellFormed, Shaped
  <2>3. LinksGone(e, d)
    <3>1. o \in Options(e)
      BY <1>1, <1>2, <2>2, AppsAre DEF Options, IsMoved
    <3> QED
      BY <2>1, <2>2, <3>1, AppsAre DEF LinksGone, Options
  <2> QED
    BY <2>1, <2>3, Counted DEF Keeps
<1>3. Keeps(d, d)
  BY SameThingsKeep
<1> QED
  BY <1>1, <1>2, <1>3 DEF e
-----------------------------------------------------------------------------
(***************************************************************************)
(* Attaching an app that is nowhere yet, below one that is not below it:   *)
(* there is no app below itself afterwards.                                *)
(***************************************************************************)
Loose(d, sub) == \A b \in DOMAIN d.apps : sub \notin Subs(d, b)

LEMMA AttachKeeps ==
  ASSUME NEW d, WellFormed(d), NEW a \in DOMAIN d.apps, NEW sub \in DOMAIN d.apps,
         Loose(d, sub), sub # Root, a \notin Below(d, sub)
  PROVE  /\ Keeps(attach(d, a, sub).cli, d)
         /\ attach(d, a, sub).thrown # "none" => attach(d, a, sub).cli = d
         /\ DOMAIN attach(d, a, sub).cli.apps = DOMAIN d.apps
         /\ attach(d, a, sub).cli.options = d.options /\ attach(d, a, sub).cli.home = d.home
         /\ \A c \in DOMAIN d.apps :
              /\ OwnOptions(attach(d, a, sub).cli, c) = OwnOptions(d, c)
              /\ Subs(attach(d, a, sub).cli, c) \subseteq
                   Subs(d, c) \cup (IF c = a THEN {sub} ELSE {})
<1> DEFINE e == [d EXCEPT !.apps[sub].parent = a, !.apps[a].subs = Append(@, sub)]
           old == d.apps[a].subs
           more == Append(old, sub)
<1>1. attach(d, a, sub) = Throws(d, "OptionAlreadyAdded") \/ attach(d, a, sub) = Returns(e)
  BY DEF attach
<1>2. a # sub
  BY BelowFacts DEF WellFormed
<1>3. /\ DOMAIN d = {"apps", "options", "home"}
      /\ \A c \in DOMAIN d.apps : DOMAIN d.apps[c] = DOMAIN DefaultApp
  BY DEF WellFormed, Shaped
<1>4. TiedFields \subseteq DOMAIN DefaultApp
  BY DEF DefaultApp, TiedFields
<1>5. /\ DOMAIN e = DOMAIN d /\ e.options = d.options /\ e.home = d.home
      /\ DOMAIN e.apps = DOMAIN d.apps
      /\ \A c \in DOMAIN d.apps :
           /\ DOMAIN e.apps[c] = DOMAIN d.apps[c]
           /\ e.apps[c].subs = IF c = a THEN more ELSE d.apps[c].subs
           /\ e.apps[c].parent = IF c = sub THEN a ELSE d.apps[c].parent
           /\ e.apps[c].options = d.apps[c].options
           /\ e.apps[c].help = d.apps[c].help /\ e.apps[c].help_all = d.apps[c].help_all
           /\ e.apps[c].exclude_subs = d.apps[c].exclude_subs
  BY <1>2, <1>3, <1>4 DEF TiedFields
<1> HIDE DEF e
<1>6. old \in Seq(DOMAIN d.apps) /\ IsInjective(old) /\ sub \notin Range(old)
  BY DEF WellFormed, Shaped, Placed, Loose, Subs
<1>7. more \in Seq(DOMAIN d.apps) /\ IsInjective(more) /\ Range(more) = Range(old) \cup {sub}
  <2> HIDE DEF old
  <2> QED
    BY <1>6, Appended
<1> HIDE DEF more
<1>8. \A c \in DOMAIN d.apps : Subs(e, c) = IF c = a THEN Subs(d, c) \cup {sub} ELSE Subs(d, c)
  BY <1>5, <1>7 DEF Subs
<1>9. Shaped(e)
  BY <1>5, <1>7 DEF WellFormed, Shaped
<1>10. Placed(e)
  <2>1. ASSUME NEW b \in DOMAIN d.apps
        PROVE  /\ IsInjective(e.apps[b].subs) /\ IsInjective(e.apps[b].options)
               /\ \A c \in Range(e.apps[b].subs) : e.apps[c].parent = b
    <3>1. IsInjective(e.apps[b].subs) /\ IsInjective(e.apps[b].options)
      BY <1>5, <1>7 DEF WellFormed, Placed
    <3>2. ASSUME NEW c \in Subs(e, b)
          PROVE  e.apps[c].parent = b
      <4>1. CASE c = sub
        BY <1>5, <1>8, <4>1 DEF Loose
      <4>2. CASE c # sub
        <5>1. c \in Subs(d, b) /\ c \in DOMAIN d.apps
          BY <1>8, <4>2, SubsAreApps DEF WellFormed
        <5> QED
          BY <1>5, <4>2, <5>1 DEF WellFormed, Placed, Subs
      <4> QED
        BY <4>1, <4>2
    <3> QED
      BY <3>1, <3>2 DEF Subs
  <2>2. \A b, c \in DOMAIN d.apps : b # c => OwnOptions(e, b) \cap OwnOptions(e, c) = {}
    BY <1>5 DEF WellFormed, Placed, OwnOptions
  <2>3. e.apps[Root].parent = NoApp
    BY <1>5 DEF WellFormed, Placed, Shaped
  <2> QED
    BY <1>5, <2>1, <2>2, <2>3 DEF Placed
<1>11. NoCycle(e)
  <2> SUFFICES ASSUME NEW S \in SUBSET DOMAIN d.apps, S # {}
               PROVE  \E b \in S : Subs(e, b) \cap S = {}
    BY <1>5 DEF NoCycle, Subs
  <2>1. CASE sub \notin S \/ a \notin S
    <3>1. PICK b \in S : Subs(d, b) \cap S = {}
      BY DEF WellFormed, NoCycle, Subs
    <3> QED
      BY <1>8, <2>1, <3>1
  <2>2. CASE sub \in S /\ a \in S
    <3> DEFINE T == S \cap Below(d, sub)
    <3>1. T \in SUBSET DOMAIN d.apps /\ T # {} /\ Closed(d, Below(d, sub))
      BY <2>2, BelowFacts DEF WellFormed
    <3>2. PICK b \in T : Subs(d, b) \cap T = {}
      BY <3>1 DEF WellFormed, NoCycle, Subs
    <3>3. Subs(d, b) \subseteq Below(d, sub)
      BY <3>1, <3>2 DEF Closed
    <3>4. Subs(d, b) \cap S = {}
      BY <3>2, <3>3
    <3> QED
      BY <1>8, <3>2, <3>4
  <2> QED
    BY <2>1, <2>2
<1>12. Symmetric(e)
  BY <1>5 DEF WellFormed, Symmetric
<1>13. \A c \in DOMAIN e.apps : HelpOwned(e, c)
  BY <1>5 DEF WellFormed, HelpOwned, OwnOptions
<1>14. WellFormed(e)
  BY <1>9, <1>10, <1>11, <1>12, <1>13 DEF WellFormed
<1>15. \A c \in DOMAIN d.apps : OwnOptions(e, c) = OwnOptions(d, c)
  BY <1>5 DEF OwnOptions
<1>16. Keeps(e, d) /\ Keeps(d, d)
  BY <1>5, <1>14, <1>15, SameThingsKeep
<1> QED
  BY <1>1, <1>5, <1>8, <1>15, <1>16 DEF Returns, Throws

(***************************************************************************)
(* What is changed by remove_subcommand: the app is in its parent no more, *)
(* and the apps that stay neither exclude nor need it.                     *)
(***************************************************************************)
IsLeft(e, d, a, sub) ==
  /\ WellFormed(e)
  /\ DOMAIN e.apps = DOMAIN d.apps /\ e.options = d.options /\ e.home = d.home
  /\ \A b \in DOMAIN d.apps :
       /\ Subs(e, b) = IF b = a THEN Subs(d, b) \ {sub} ELSE Subs(d, b)
       /\ OwnOptions(e, b) = OwnOptions(d, b)

LEMMA RemoveSubcommandLeaves ==
  ASSUME NEW d, WellFormed(d), NEW a \in DOMAIN d.apps, NEW sub
  PROVE  IsLeft(remove_subcommand(d, a, sub), d, a, sub)
<1> DEFINE e == remove_subcommand(d, a, sub)
           beside == Subs(d, a)
           excluding == {b \in beside : sub \in d.apps[b].exclude_subs}
           excluded(b) == (IF b \in beside THEN {sub} ELSE {})
                            \cup (IF b = sub THEN excluding ELSE {})
           rest == RemoveFirst(d.apps[a].subs, sub)
<1>1. /\ DOMAIN d = {"apps", "options", "home"}
      /\ \A c \in DOMAIN d.apps : DOMAIN d.apps[c] = DOMAIN DefaultApp
      /\ \A c \in DOMAIN d.apps : d.apps[c].exclude_subs \subseteq DOMAIN d.apps
  BY DEF WellFormed, Shaped
<1>2. TiedFields \subseteq DOMAIN DefaultApp /\ "need_subs" \notin TiedFields
  BY DEF DefaultApp, TiedFields
<1>3. /\ DOMAIN e = DOMAIN d /\ e.options = d.options /\ e.home = d.home
      /\ DOMAIN e.apps = DOMAIN d.apps
      /\ \A c \in DOMAIN d.apps :
           /\ DOMAIN e.apps[c] = DOMAIN d.apps[c]
           /\ e.apps[c].subs = IF c = a THEN rest ELSE d.apps[c].subs
           /\ e.apps[c].exclude_subs = d.apps[c].exclude_subs \ excluded(c)
           /\ e.apps[c].parent = d.apps[c].parent
           /\ e.apps[c].options = d.apps[c].options
           /\ e.apps[c].help = d.apps[c].help /\ e.apps[c].help_all = d.apps[c].help_all
  BY <1>1, <1>2 DEF remove_subcommand, Left, TiedFields, Subs
<1> HIDE DEF e
<1>4. rest \in Seq(DOMAIN d.apps) /\ IsInjective(rest) /\ Range(rest) = Subs(d, a) \ {sub}
  <2> DEFINE old == d.apps[a].subs
  <2>1. old \in Seq(DOMAIN d.apps) /\ IsInjective(old)
    BY DEF WellFormed, Shaped, Placed
  <2> HIDE DEF old
  <2> QED
    BY <2>1, Removed DEF Subs, old
<1> HIDE DEF rest
<1>5. \A b \in DOMAIN d.apps : /\ Subs(e, b) = IF b = a THEN Subs(d, b) \ {sub} ELSE Subs(d, b)
                               /\ OwnOptions(e, b) = OwnOptions(d, b)
  BY <1>3, <1>4 DEF Subs, OwnOptions
<1>6. Shaped(e)
  <2> HIDE DEF excluded
  <2>1. \A c \in DOMAIN d.apps : e.apps[c].exclude_subs \subseteq DOMAIN d.apps
    BY <1>1, <1>3
  <2>2. \A c \in DOMAIN d.apps : e.apps[c].subs \in Seq(DOMAIN d.apps)
    BY <1>3, <1>4 DEF WellFormed, Shaped
  <2> QED
    BY <1>3, <2>1, <2>2 DEF WellFormed, Shaped
<1>7. Placed(e)
  <2>1. \A b \in DOMAIN d.apps : Subs(d, b) \subseteq DOMAIN d.apps
    BY SubsAreApps DEF WellFormed
  <2>2. \A b \in DOMAIN d.apps : IsInjective(e.apps[b].subs) /\ IsInjective(e.apps[b].options)
    BY <1>3, <1>4 DEF WellFormed, Placed
  <2>3. \A b \in DOMAIN d.apps : \A c \in Subs(d, b) : d.apps[c].parent = b
    BY DEF WellFormed, Placed, Subs
  <2>4. \A b \in DOMAIN d.apps : \A c \in Subs(e, b) : e.apps[c].parent = b
    BY <1>3, <1>5, <2>1, <2>3
  <2>5. \A b, c \in DOMAIN d.apps : b # c => OwnOptions(e, b) \cap OwnOptions(e, c) = {}
    BY <1>5 DEF WellFormed, Placed
  <2>6. e.apps[Root].parent = NoApp
    BY <1>3 DEF WellFormed, Placed, Shaped
  <2> QED
    BY <1>3, <2>2, <2>4, <2>5, <2>6 DEF Placed, Subs
<1>8. NoCycle(e)
  <2> SUFFICES ASSUME NEW S \in SUBSET DOMAIN d.apps, S # {}
               PROVE  \E b \in S : Subs(e, b) \cap S = {}
    BY <1>3 DEF NoCycle, Subs
  <2>1. PICK b \in S : Subs(d, b) \cap S = {}
    BY DEF WellFormed, NoCycle, Subs
  <2> QED
    BY <1>5, <2>1
<1>9. Symmetric(e)
  <2> SUFFICES ASSUME NEW b \in DOMAIN d.apps, NEW c \in DOMAIN d.apps,
                      c \in e.apps[b].exclude_subs
               PROVE  b \in e.apps[c].exclude_subs
    BY <1>3 DEF Symmetric
  <2>1. c \in d.apps[b].exclude_subs /\ b \in d.apps[c].exclude_subs /\ c \notin excluded(b)
    BY <1>3 DEF WellFormed, Symmetric
  <2>2. b \notin excluded(c)
    BY <2>1
  <2> QED
    BY <1>3, <2>1, <2>2
<1>10. \A c \in DOMAIN e.apps : HelpOwned(e, c)
  BY <1>3, <1>5 DEF WellFormed, HelpOwned
<1>11. WellFormed(e)
  BY <1>6, <1>7, <1>8, <1>9, <1>10 DEF WellFormed
<1> QED
  BY <1>3, <1>5, <1>11 DEF IsLeft, e

(***************************************************************************)
(* So the definition stays well-formed.                                    *)
(***************************************************************************)
LEMMA RemoveSubcommandKeeps ==
  ASSUME NEW d, WellFormed(d), NEW a \in DOMAIN d.apps, NEW sub
  PROVE  Keeps(remove_subcommand(d, a, sub), d)
<1> DEFINE e == remove_subcommand(d, a, sub)
<1>1. IsLeft(e, d, a, sub)
  BY RemoveSubcommandLeaves
<1> HIDE DEF e
<1>2. Keeps(e, d)
  BY <1>1, SameThingsKeep DEF IsLeft
<1> QED
  BY <1>2 DEF e

(***************************************************************************)
(* A subcommand moved to a group (add_subcommand of the group): removed    *)
(* and attached again.                                                     *)
(***************************************************************************)
LEMMA MoveSubcommandKeeps ==
  ASSUME NEW d, WellFormed(d), NEW sub \in Apps(d), sub # Root,
         NEW g \in DOMAIN d.apps, g \notin Below(d, sub)
  PROVE  Keeps(move_subcommand(d, g, sub).cli, d)
<1> DEFINE p == d.apps[sub].parent
           e == remove_subcommand(d, p, sub)
           f == attach(e, g, sub).cli
<1>1. p \in DOMAIN d.apps /\ sub \in DOMAIN d.apps
  BY ParentIs, AppsAre
<1>2. \A b \in DOMAIN d.apps : sub \in Subs(d, b) => b = p
  BY DEF WellFormed, Placed, Subs
<1> HIDE DEF p
<1>3. IsLeft(e, d, p, sub)
  BY <1>1, RemoveSubcommandLeaves
<1> HIDE DEF e
<1>4. WellFormed(e) /\ g \in DOMAIN e.apps /\ sub \in DOMAIN e.apps
  BY <1>1, <1>3 DEF IsLeft
<1>5. Loose(e, sub)
  BY <1>2, <1>3 DEF Loose, IsLeft
<1>6. g \notin Below(e, sub)
  <2>1. /\ sub \in Below(d, sub) /\ Below(d, sub) \subseteq DOMAIN d.apps
        /\ Closed(d, Below(d, sub))
    BY <1>1, BelowFacts DEF WellFormed
  <2>2. Closed(e, Below(d, sub))
    BY <1>3, <2>1 DEF Closed, IsLeft
  <2>3. Below(d, sub) \in SUBSET DOMAIN e.apps
    BY <1>3, <2>1 DEF IsLeft
  <2>4. Below(e, sub) \subseteq Below(d, sub)
    BY <1>4, <2>1, <2>2, <2>3, BelowFacts DEF WellFormed
  <2> QED
    BY <2>4
<1>7. /\ Keeps(f, e) /\ DOMAIN f.apps = DOMAIN e.apps /\ f.options = e.options
      /\ \A c \in DOMAIN e.apps : OwnOptions(f, c) = OwnOptions(e, c)
  BY <1>4, <1>5, <1>6, AttachKeeps
<1>8. move_subcommand(d, g, sub).cli = f
  BY DEF move_subcommand, e, p
<1> HIDE DEF f
<1>9. Keeps(f, d)
  <2>1. WellFormed(f)
    BY <1>7 DEF Keeps
  <2>2. DOMAIN f.apps = DOMAIN d.apps /\ DOMAIN f.options = DOMAIN d.options
    BY <1>3, <1>7 DEF IsLeft
  <2>3. \A b \in DOMAIN d.apps : OwnOptions(d, b) \subseteq OwnOptions(f, b)
    BY <1>3, <1>7 DEF IsLeft
  <2> QED
    BY <2>1, <2>2, <2>3, SameThingsKeep
<1> QED
  BY <1>8, <1>9
-----------------------------------------------------------------------------
(* The definition with an app more, that has n options at most and is in   *)
(* no other one yet.                                                       *)
IsBorn(e, d, sub, n) ==
  /\ WellFormed(e)
  /\ sub \notin DOMAIN d.apps /\ DOMAIN e.apps = DOMAIN d.apps \cup {sub}
  /\ \A b \in DOMAIN d.apps : e.apps[b] = d.apps[b]
  /\ Subs(e, sub) = {}
  /\ DOMAIN d.options \subseteq DOMAIN e.options
  /\ \A p \in DOMAIN d.options : e.options[p] = d.options[p]
  /\ OwnOptions(e, sub) \cap DOMAIN d.options = {}
  /\ Cardinality(DOMAIN e.options) <= Cardinality(DOMAIN d.options) + n

(***************************************************************************)
(* A new app, before it inherits anything of its parent.                   *)
(***************************************************************************)
LEMMA BareIsBorn ==
  ASSUME NEW d, WellFormed(d), NEW sub \in AppIds, sub \notin DOMAIN d.apps, NEW n, NEW p
  PROVE  IsBorn([d EXCEPT !.apps = Extend(@, sub, [DefaultApp EXCEPT !.name = n, !.parent = p])],
                d, sub, 0)
<1> DEFINE bare == [DefaultApp EXCEPT !.name = n, !.parent = p]
           e == [d EXCEPT !.apps = Extend(@, sub, bare)]
<1>1. /\ DOMAIN bare = DOMAIN DefaultApp
      /\ bare.subs = <<>> /\ bare.options = <<>> /\ bare.exclude_subs = {}
      /\ bare.help = NoOption /\ bare.help_all = NoOption
  BY DEF DefaultApp
<1> HIDE DEF bare
<1>2. /\ DOMAIN e = DOMAIN d /\ e.options = d.options /\ e.home = d.home
      /\ DOMAIN e.apps = DOMAIN d.apps \cup {sub}
      /\ e.apps[sub] = bare /\ \A b \in DOMAIN d.apps : e.apps[b] = d.apps[b]
  BY DEF WellFormed, Shaped, Extend
<1> HIDE DEF e
<1>3. Range(<<>>) = {} /\ IsInjective(<<>>) /\ \A S : <<>> \in Seq(S)
  BY DEF Range, IsInjective
<1>4. Subs(e, sub) = {} /\ OwnOptions(e, sub) = {}
  BY <1>1, <1>2, <1>3 DEF Subs, OwnOptions
<1>5. \A b \in DOMAIN d.apps : Subs(e, b) = Subs(d, b) /\ OwnOptions(e, b) = OwnOptions(d, b)
  BY <1>2 DEF Subs, OwnOptions
<1>6. Shaped(e)
  <2>1. \A b \in DOMAIN d.apps : e.apps[b].subs \in Seq(DOMAIN e.apps)
    BY <1>2 DEF WellFormed, Shaped
  <2>2. e.home \in [DOMAIN e.options -> DOMAIN e.apps]
    BY <1>2 DEF WellFormed, Shaped
  <2>3. \A b \in DOMAIN e.apps :
          /\ DOMAIN e.apps[b] = DOMAIN DefaultApp
          /\ e.apps[b].subs \in Seq(DOMAIN e.apps)
          /\ e.apps[b].options \in Seq(DOMAIN e.options)
          /\ e.apps[b].exclude_subs \subseteq DOMAIN e.apps
    BY <1>1, <1>2, <1>3, <2>1 DEF WellFormed, Shaped
  <2> QED
    BY <1>2, <2>2, <2>3 DEF WellFormed, Shaped
<1>7. Placed(e)
  <2>1. \A b \in DOMAIN d.apps : Subs(d, b) \subseteq DOMAIN d.apps
    BY SubsAreApps DEF WellFormed
  <2>2. \A b \in DOMAIN e.apps : IsInjective(e.apps[b].subs) /\ IsInjective(e.apps[b].options)
    BY <1>1, <1>2, <1>3 DEF WellFormed, Placed
  <2>3. \A b \in DOMAIN d.apps : \A c \in Subs(d, b) : d.apps[c].parent = b
    BY DEF WellFormed, Placed, Subs
  <2>4. \A b \in DOMAIN e.apps : \A c \in Subs(e, b) : e.apps[c].parent = b
    BY <1>2, <1>4, <1>5, <2>1, <2>3
  <2>5. \A b, c \in DOMAIN e.apps : b # c => OwnOptions(e, b) \cap OwnOptions(e, c) = {}
    BY <1>2, <1>4, <1>5 DEF WellFormed, Placed
  <2>6. e.apps[Root].parent = NoApp
    BY <1>2 DEF WellFormed, Placed, Shaped
  <2> QED
    BY <2>2, <2>4, <2>5, <2>6 DEF Placed, Subs
<1>8. NoCycle(e)
  <2> SUFFICES ASSUME NEW S \in SUBSET (DOMAIN d.apps \cup {sub}), S # {}
               PROVE  \E b \in S : Subs(e, b) \cap S = {}
    BY <1>2 DEF NoCycle, Subs
  <2>1. CASE sub \in S
    BY <1>4, <2>1
  <2>2. CASE sub \notin S
    <3>1. S \in SUBSET DOMAIN d.apps
      BY <2>2
    <3>2. PICK b \in S : Subs(d, b) \cap S = {}
      BY <3>1 DEF WellFormed, NoCycle, Subs
    <3> QED
      BY <1>5, <3>1, <3>2
  <2> QED
    BY <2>1, <2>2
<1>9. Symmetric(e)
  BY <1>1, <1>2 DEF WellFormed, Shaped, Symmetric
<1>10. \A c \in DOMAIN e.apps : HelpOwned(e, c)
  BY <1>1, <1>2, <1>4, <1>5 DEF WellFormed, HelpOwned
<1>11. WellFormed(e)
  BY <1>6, <1>7, <1>8, <1>9, <1>10 DEF WellFormed
<1>12. Cardinality(DOMAIN e.options) <= Cardinality(DOMAIN d.options) + 0
  BY <1>2, Counted
<1> QED
  BY <1>2, <1>4, <1>11, <1>12 DEF IsBorn, e, bare

(***************************************************************************)
(* With a flag more.                                                       *)
(***************************************************************************)
LEMMA FlaggedIsBorn ==
  ASSUME NEW d, WellFormed(d), NEW sub, NEW n \in Nat, NEW e, IsBorn(e, d, sub, n),
         Room(d, n + 1), NEW kind \in Kinds, NEW names
  PROVE  IsBorn(set_flag(e, sub, kind, names).cli, d, sub, n + 1)
<1> DEFINE f == set_flag(e, sub, kind, names).cli
<1>1. WellFormed(e) /\ sub \in DOMAIN e.apps
  BY DEF IsBorn
<1>2. /\ Cardinality(DOMAIN d.options) \in Nat /\ Cardinality(DOMAIN e.options) \in Nat
      /\ Cardinality(OptionIds) \in Nat
  BY <1>1, Counted, IdsAssumption, FS_CardinalityType
<1>3. Room(e, 1)
  BY <1>2 DEF Room, IsBorn
<1>4. Replaces(f, e, sub)
  BY <1>1, <1>3, SetFlagReplaces
<1> HIDE DEF f
<1>5. PICK x, w, o : Removes(w, e, sub, x) /\ KeepsOptions(f, w, sub, o)
  BY <1>4 DEF Replaces
<1>6. /\ DOMAIN w.apps = DOMAIN e.apps /\ DOMAIN f.apps = DOMAIN e.apps
      /\ DOMAIN w.options = DOMAIN e.options
      /\ DOMAIN f.options \in {DOMAIN e.options, DOMAIN e.options \cup {o}}
      /\ o \notin DOMAIN e.options
      /\ WellFormed(f)
  BY <1>5 DEF Removes, KeepsOptions
<1>7. \A b \in DOMAIN d.apps : f.apps[b] = d.apps[b]
  BY <1>5, <1>6 DEF Removes, KeepsOptions, SameElsewhere, IsBorn
<1>8. Subs(f, sub) = {}
  BY <1>1, <1>5, <1>6 DEF Removes, KeepsOptions, IsBorn, Subs
<1>9. OwnOptions(w, sub) \subseteq OwnOptions(e, sub)
      /\ OwnOptions(f, sub) \subseteq OwnOptions(w, sub) \cup {o}
  BY <1>1, <1>5, <1>6 DEF Removes, KeepsOptions
<1>10. OwnOptions(f, sub) \cap DOMAIN d.options = {}
  BY <1>6, <1>9 DEF IsBorn
<1>11. \A p \in DOMAIN d.options : f.options[p] = d.options[p]
  BY <1>5, <1>6, <1>9 DEF Removes, KeepsOptions, SameElsewhere, IsBorn
<1>12. Cardinality(DOMAIN f.options) <= Cardinality(DOMAIN d.options) + (n + 1)
  <2>1. Cardinality(DOMAIN f.options) <= Cardinality(DOMAIN e.options) + 1
    <3>1. CASE DOMAIN f.options = DOMAIN e.options
      BY <1>2, <3>1
    <3>2. CASE DOMAIN f.options = DOMAIN e.options \cup {o}
      BY <1>1, <3>2, Counted
    <3> QED
      BY <1>6, <3>1, <3>2
  <2>2. Cardinality(DOMAIN f.options) \in Nat
    BY <1>6, Counted
  <2>3. Cardinality(DOMAIN e.options) <= Cardinality(DOMAIN d.options) + n
    BY DEF IsBorn
  <2> QED
    BY <1>2, <2>1, <2>2, <2>3
<1> QED
  BY <1>6, <1>7, <1>8, <1>10, <1>11, <1>12 DEF IsBorn, f

(***************************************************************************)
(* As long as there is room, a new app gets an identity that none has.     *)
(***************************************************************************)
LEMMA NewAppId ==
  ASSUME NEW d, Shaped(d), EnoughIds(d, 1)
  PROVE  Unused(AppIds, d.apps) \in AppIds \ DOMAIN d.apps
<1>1. Cardinality(DOMAIN d.apps) # Cardinality(AppIds)
  <2>1. Cardinality(DOMAIN d.apps) \in Nat /\ Cardinality(AppIds) \in Nat
    BY IdsAssumption, FS_Subset, FS_CardinalityType DEF Shaped
  <2> QED
    BY <2>1 DEF EnoughIds
<1>2. \E id \in AppIds : id \notin DOMAIN d.apps
  <2> SUFFICES ASSUME AppIds \subseteq DOMAIN d.apps PROVE FALSE
    OBVIOUS
  <2>1. AppIds = DOMAIN d.apps
    BY DEF Shaped
  <2> QED
    BY <1>1, <2>1
<1> QED
  BY <1>2 DEF Unused

(***************************************************************************)
(* What an app inherits of its parent is none of its ties.                 *)
(***************************************************************************)
LEMMA InheritsKeepsTies ==
  ASSUME NEW app, DOMAIN app = DOMAIN DefaultApp, NEW p
  PROVE  SameTies(Inherits(app, p), app)
<1>1. TiedFields \subseteq DOMAIN app
  BY DEF DefaultApp, TiedFields
<1> QED
  BY <1>1 DEF SameTies, TiedFields, Inherits

(***************************************************************************)
(* With fewer options it has no more than it might have.                   *)
(***************************************************************************)
LEMMA MoreIsBorn ==
  ASSUME NEW d, WellFormed(d), NEW sub, NEW m \in Nat, NEW n \in Nat, m <= n,
         NEW e, IsBorn(e, d, sub, m)
  PROVE  IsBorn(e, d, sub, n)
<1>1. Cardinality(DOMAIN d.options) \in Nat /\ Cardinality(DOMAIN e.options) \in Nat
  BY Counted DEF IsBorn
<1> QED
  BY <1>1 DEF IsBorn

(***************************************************************************)
(* The constructor of an app: bare, with the help flags of its parent,     *)
(* then with what it inherits.                                             *)
(***************************************************************************)
LEMMA NewAppIsBorn ==
  ASSUME NEW d, WellFormed(d), NEW sub \in AppIds, sub \notin DOMAIN d.apps, Room(d, 2),
         NEW n, NEW parent
  PROVE  IsBorn(NewApp(d, sub, n, parent).cli, d, sub, 2)
<1> DEFINE p == d.apps[parent]
           bare == [DefaultApp EXCEPT !.name = n, !.parent = parent]
           e == [d EXCEPT !.apps = Extend(@, sub, bare)]
           flagged(f, kind) == IF p[kind] = NoOption THEN Returns(f)
                               ELSE set_flag(f, sub, kind, get_name(d.options[p[kind]]))
           first == flagged(e, "help")
           second == flagged(first.cli, "help_all")
           last == [second.cli EXCEPT !.apps[sub] = Inherits(second.cli.apps[sub], p)]
<1>1. \/ NewApp(d, sub, n, parent) = first
      \/ NewApp(d, sub, n, parent) = second
      \/ NewApp(d, sub, n, parent).cli = last
  BY DEF NewApp, Chain, Returns
<1>2. Room(d, 1) /\ Room(d, 2)
  <2>1. Cardinality(DOMAIN d.options) \in Nat /\ Cardinality(OptionIds) \in Nat
    BY Counted, IdsAssumption, FS_CardinalityType
  <2> QED
    BY <2>1 DEF Room
<1>3. IsBorn(e, d, sub, 0)
  BY BareIsBorn
<1> HIDE DEF e, bare
<1>4. IsBorn(first.cli, d, sub, 1)
  <2>1. IsBorn(set_flag(e, sub, "help", get_name(d.options[p.help])).cli, d, sub, 0 + 1)
    BY <1>2, <1>3, FlaggedIsBorn DEF Kinds
  <2>2. IsBorn(e, d, sub, 1)
    BY <1>3, MoreIsBorn
  <2> QED
    BY <2>1, <2>2 DEF Returns
<1> HIDE DEF first
<1>5. IsBorn(second.cli, d, sub, 2)
  <2>1. IsBorn(set_flag(first.cli, sub, "help_all", get_name(d.options[p.help_all])).cli,
               d, sub, 1 + 1)
    BY <1>2, <1>4, FlaggedIsBorn DEF Kinds
  <2>2. IsBorn(first.cli, d, sub, 2)
    BY <1>4, MoreIsBorn
  <2> QED
    BY <2>1, <2>2 DEF Returns
<1>6. IsBorn(first.cli, d, sub, 2)
  BY <1>4, MoreIsBorn
<1> DEFINE f == second.cli
<1> HIDE DEF second
<1>7. IsBorn(last, d, sub, 2)
  <2> DEFINE app == Inherits(f.apps[sub], p)
  <2>1. WellFormed(f) /\ sub \in DOMAIN f.apps
    BY <1>5 DEF IsBorn
  <2>2. SameTies(app, f.apps[sub])
    BY <2>1, InheritsKeepsTies DEF WellFormed, Shaped
  <2>3. last = [f EXCEPT !.apps[sub] = app]
    OBVIOUS
  <2> HIDE DEF app
  <2>4. OnlyApp([f EXCEPT !.apps[sub] = app], f, sub, app)
    BY <2>1, <2>2, SetAppWellFormed
  <2> HIDE DEF last
  <2>5. OnlyApp(last, f, sub, app)
    BY <2>3, <2>4
  <2>6. Subs(last, sub) = Subs(f, sub) /\ OwnOptions(last, sub) = OwnOptions(f, sub)
    BY <2>1, <2>2, <2>5 DEF OnlyApp, SameTies, Subs, OwnOptions
  <2> QED
    BY <1>5, <2>5, <2>6 DEF IsBorn, OnlyApp
<1> QED
  BY <1>1, <1>5, <1>6, <1>7

(***************************************************************************)
(* An app that was made just now is nowhere yet, and has nothing below it. *)
(***************************************************************************)
LEMMA BornIsLoose ==
  ASSUME NEW d, WellFormed(d), NEW sub, NEW n, NEW e, IsBorn(e, d, sub, n)
  PROVE  /\ Loose(e, sub) /\ sub # Root /\ Below(e, sub) = {sub}
         /\ Apps(e) = Apps(d) /\ \A a \in DOMAIN d.apps : OwnOptions(e, a) = OwnOptions(d, a)
<1>1. \A b \in DOMAIN d.apps : Subs(e, b) = Subs(d, b) /\ OwnOptions(e, b) = OwnOptions(d, b)
  BY DEF IsBorn, Subs, OwnOptions
<1>2. Loose(e, sub)
  BY <1>1, SubsAreApps DEF IsBorn, WellFormed, Loose
<1>3. sub # Root
  BY DEF IsBorn, WellFormed, Shaped
<1>4. Below(e, sub) = {sub}
  <2>1. {sub} \in SUBSET DOMAIN e.apps /\ Closed(e, {sub})
    BY DEF IsBorn, Closed
  <2> QED
    BY <2>1, BelowFacts DEF IsBorn, WellFormed
<1>5. Apps(e) = Apps(d)
  <2>1. WellFormed(e) /\ DOMAIN d.apps \subseteq DOMAIN e.apps
    BY DEF IsBorn
  <2> QED
    BY <1>1, <2>1, SameSubsSameBelow DEF Apps, WellFormed, Shaped
<1> QED
  BY <1>1, <1>2, <1>3, <1>4, <1>5

(***************************************************************************)
(* add_subcommand and add_option_group: make an app and attach it.         *)
(***************************************************************************)
LEMMA AddSubcommandKeeps ==
  ASSUME NEW d, WellFormed(d), EnoughIds(d, 1), NEW a \in DOMAIN d.apps, NEW n
  PROVE  /\ Keeps(add_subcommand(d, a, n).cli, d)
         /\ add_subcommand(d, a, n).thrown # "none" =>
              \/ add_subcommand(d, a, n).cli = d
              \/ \E sub : IsBorn(add_subcommand(d, a, n).cli, d, sub, 2)
<1> DEFINE sub == Unused(AppIds, d.apps)
           out == NewApp(d, sub, n, a)
           e == out.cli
           f == attach(e, a, sub).cli
<1>1. \/ add_subcommand(d, a, n) = Throws(d, "IncorrectConstruction")
      \/ add_subcommand(d, a, n) = out
      \/ add_subcommand(d, a, n) = attach(e, a, sub)
  BY DEF add_subcommand, Chain
<1>2. sub \in AppIds /\ sub \notin DOMAIN d.apps
  BY NewAppId DEF WellFormed
<1>3. Room(d, 2)
  <2>1. Cardinality(DOMAIN d.options) \in Nat /\ Cardinality(OptionIds) \in Nat
    BY Counted, IdsAssumption, FS_CardinalityType
  <2> QED
    BY <2>1 DEF Room, EnoughIds
<1> HIDE DEF sub
<1>4. IsBorn(e, d, sub, 2)
  BY <1>2, <1>3, NewAppIsBorn
<1> HIDE DEF out
<1>5. /\ WellFormed(e) /\ DOMAIN e.apps = DOMAIN d.apps \cup {sub}
      /\ Cardinality(DOMAIN e.options) <= Cardinality(DOMAIN d.options) + 2
  BY <1>4 DEF IsBorn
<1>6. Cardinality(DOMAIN e.apps) <= Cardinality(DOMAIN d.apps) + 1
  BY <1>5, Counted
<1>7. /\ Loose(e, sub) /\ sub # Root /\ Below(e, sub) = {sub}
      /\ \A b \in DOMAIN d.apps : OwnOptions(e, b) = OwnOptions(d, b)
  BY <1>4, BornIsLoose
<1>8. Keeps(e, d)
  <2>1. LinksGone(e, d)
    BY <1>7, AppsAre, NothingLost
  <2> QED
    BY <1>5, <1>6, <2>1 DEF Keeps
<1>9. a \in DOMAIN e.apps /\ sub \in DOMAIN e.apps /\ a \notin Below(e, sub)
  BY <1>2, <1>5, <1>7
<1>10. /\ Keeps(f, e) /\ DOMAIN f.apps = DOMAIN e.apps /\ f.options = e.options
       /\ attach(e, a, sub).thrown # "none" => f = e
       /\ \A c \in DOMAIN e.apps : OwnOptions(f, c) = OwnOptions(e, c)
  BY <1>5, <1>7, <1>9, AttachKeeps
<1> HIDE DEF f
<1>11. Keeps(f, d)
  <2>1. LinksGone(f, d)
    BY <1>5, <1>7, <1>10, AppsAre, NothingLost
  <2> QED
    BY <1>5, <1>6, <1>10, <2>1 DEF Keeps
<1>12. Keeps(d, d)
  BY SameThingsKeep
<1> QED
  BY <1>1, <1>4, <1>8, <1>10, <1>11, <1>12 DEF Throws, f
-----------------------------------------------------------------------------
(***************************************************************************)
(* The inductive invariant: the definition is well-formed, in the apps and *)
(* options that were removed, too, for others still point to them; and     *)
(* there are identities for the calls to come.  TypeOK and the properties  *)
(* of the apps in the program follow from it, but are not inductive: they  *)
(* say neither that no app is below itself nor how the sizes of an option  *)
(* may be changed.                                                         *)
(***************************************************************************)
IInv ==
  /\ WellFormed(cli)
  /\ calls \in 0 .. MaxCalls
  /\ EnoughIds(cli, MaxCalls - calls)

(***************************************************************************)
(* The apps and options of the program in a well-formed definition.        *)
(***************************************************************************)
LEMMA ThingsAre ==
  ASSUME WellFormed(cli)
  PROVE  /\ Apps(cli) \subseteq DOMAIN cli.apps
         /\ Options(cli) \subseteq DOMAIN cli.options
         /\ \A o \in Options(cli) : IsOption(cli.options[o], DOMAIN cli.options)
         /\ \A a \in Apps(cli) :
              /\ DOMAIN cli.apps[a] = DOMAIN DefaultApp
              /\ OwnOptions(cli, a) \subseteq DOMAIN cli.options
BY AppsAre, OptionsOfApps, OptionsAre, OwnOptionsAre DEF WellFormed, Shaped

(***************************************************************************)
(* Each call that makes, removes or moves an option keeps the invariant.   *)
(***************************************************************************)
LEMMA ChangeOptionsKeeps ==
  ASSUME WellFormed(cli), Room(cli, 1), ChangeOptions
  PROVE  Keeps(cli', cli)
<1>1. ASSUME AddOption PROVE Keeps(cli', cli)
  <2>1. PICK a \in Apps(cli), names \in OptionNames : cli' = add_option(cli, a, names).cli
    BY <1>1 DEF AddOption, Makes
  <2> QED
    BY <2>1, ThingsAre, AddOptionReplaces, ReplacesKeeps
<1>2. ASSUME AddFlag PROVE Keeps(cli', cli)
  <2>1. PICK a \in Apps(cli), names \in FlagNames : cli' = add_flag(cli, a, names).cli
    BY <1>2 DEF AddFlag, Makes
  <2> QED
    BY <2>1, ThingsAre, AddFlagReplaces, ReplacesKeeps
<1>3. ASSUME RemoveOption PROVE Keeps(cli', cli)
  <2>1. PICK a, o : a \in Apps(cli) /\ o \in OwnOptions(cli, a) /\ cli' = remove_option(cli, a, o)
    BY <1>3 DEF RemoveOption, Makes, Returns
  <2>2. Removes(cli', cli, a, o)
    BY <2>1, ThingsAre, RemoveOptionRemoves
  <2> QED
    BY <2>1, <2>2, ThingsAre, SameReplaces, ReplacesKeeps
<1>4. ASSUME RetireOption PROVE Keeps(cli', cli)
  <2>1. PICK a, o :
          a \in Apps(cli) /\ o \in OwnOptions(cli, a) /\ cli' = retire_option(cli, a, o).cli
    BY <1>4 DEF RetireOption, Makes
  <2> QED
    BY <2>1, ThingsAre, RetireOptionReplaces, ReplacesKeeps
<1>5. ASSUME SetFlag PROVE Keeps(cli', cli)
  <2>1. PICK a \in Apps(cli), kind \in {"help", "help_all", "version"},
             names \in FlagNames \cup {<<>>} : cli' = set_flag(cli, a, kind, names).cli
    BY <1>5 DEF SetFlag, Makes
  <2> QED
    BY <2>1, ThingsAre, SetFlagReplaces, ReplacesKeeps DEF Kinds
<1>6. ASSUME SetConfig PROVE Keeps(cli', cli)
  <2>1. PICK a \in Apps(cli), names \in OptionNames \cup {<<>>} :
          cli' = set_config(cli, a, names).cli
    BY <1>6 DEF SetConfig, Makes
  <2> QED
    BY <2>1, ThingsAre, SetConfigReplaces, ReplacesKeeps
<1>7. ASSUME MoveOption PROVE Keeps(cli', cli)
  <2>1. PICK g \in Groups, o \in Options(cli) : cli' = move_option(cli, g, o).cli
    BY <1>7 DEF MoveOption, Makes
  <2> QED
    BY <2>1, MoveOptionKeeps DEF Groups
<1> QED
  BY <1>1, <1>2, <1>3, <1>4, <1>5, <1>6, <1>7 DEF ChangeOptions

LEMMA SetOptionKeeps ==
  ASSUME WellFormed(cli), NEW op, NEW o \in Options(cli), NEW opt,
         IsOption(opt, DOMAIN cli.options), SetOption(op, o, opt)
  PROVE  Keeps(cli', cli)
<1>1. OnlyOption(Set(cli, o, opt), cli, o)
  BY ThingsAre, SetOnlyOption
<1> QED
  BY <1>1, OnlyOptionKeeps DEF SetOption, Makes, Returns

LEMMA SetOneAppKeeps ==
  ASSUME WellFormed(cli), NEW op, NEW a \in Apps(cli), NEW app,
         SameTies(app, cli.apps[a]), SetApp(op, a, app)
  PROVE  SamePlaces(cli', cli)
<1>1. SamePlaces([cli EXCEPT !.apps[a] = app], cli)
  BY ThingsAre, SetAppKeeps
<1> QED
  BY <1>1 DEF SetApp, Makes, Returns

LEMMA ChangeOptionKeeps ==
  ASSUME WellFormed(cli), ChangeOption
  PROVE  Keeps(cli', cli)
<1>1. ASSUME OptionIgnores PROVE Keeps(cli', cli)
  <2>1. PICK o \in Options(cli), what \in Ignorable, value \in BOOLEAN :
          cli' = option_ignores(cli, o, what, value).cli
    BY <1>1 DEF OptionIgnores, Makes
  <2>2. OnlyOption(cli', cli, o)
    BY <2>1, ThingsAre, OptionIgnoresKeeps
  <2> QED
    BY <2>2, OnlyOptionKeeps
<1>2. ASSUME IgnoreByDefault PROVE Keeps(cli', cli)
  <2>1. PICK a \in Apps(cli), what \in Ignorable :
          SetApp("defaults", a, [cli.apps[a] EXCEPT !.defaults[what] = TRUE])
    BY <1>2 DEF IgnoreByDefault
  <2>2. SameTies([cli.apps[a] EXCEPT !.defaults[what] = TRUE], cli.apps[a])
    BY ThingsAre, OtherFieldKeepsTies DEF TiedFields
  <2> QED
    BY <2>1, <2>2, SetOneAppKeeps, SamePlacesKeep
<1>3. ASSUME RequireByDefault PROVE Keeps(cli', cli)
  <2>1. PICK a \in Apps(cli) :
          SetApp("defaults", a, [cli.apps[a] EXCEPT !.defaults.required = TRUE,
                                                    !.defaults.policy = "TakeAll"])
    BY <1>3 DEF RequireByDefault
  <2>2. TiedFields \subseteq DOMAIN cli.apps[a] /\ "defaults" \notin TiedFields
    BY ThingsAre DEF DefaultApp, TiedFields
  <2>3. SameTies([cli.apps[a] EXCEPT !.defaults.required = TRUE,
                                     !.defaults.policy = "TakeAll"], cli.apps[a])
    BY <2>2 DEF SameTies, TiedFields
  <2> QED
    BY <2>1, <2>3, SetOneAppKeeps, SamePlacesKeep
<1>4. ASSUME TypeSize PROVE Keeps(cli', cli)
  <2>1. PICK o \in Options(cli), size \in SizeArguments :
          SetOption("size", o, type_size(cli.options[o], size))
    BY <1>4 DEF TypeSize
  <2>2. IsOption(type_size(cli.options[o], size), DOMAIN cli.options)
    BY SizesAssumption, ThingsAre, TypeSizeSized
  <2> QED
    BY <2>1, <2>2, SetOptionKeeps
<1>5. ASSUME TypeSizes PROVE Keeps(cli', cli)
  <2>1. PICK o \in Options(cli), range \in RangeArguments :
          SetOption("size", o, type_sizes(cli.options[o], range[1], range[2]))
    BY <1>5 DEF TypeSizes
  <2>2. IsOption(type_sizes(cli.options[o], range[1], range[2]), DOMAIN cli.options)
    BY SizesAssumption, ThingsAre, TypeSizesSized
  <2> QED
    BY <2>1, <2>2, SetOptionKeeps
<1>6. ASSUME Expected PROVE Keeps(cli', cli)
  <2>1. PICK o \in Options(cli), value \in SizeArguments :
          SetOption("size", o, expected(cli.options[o], value))
    BY <1>6 DEF Expected
  <2>2. IsOption(expected(cli.options[o], value), DOMAIN cli.options)
    BY SizesAssumption, ThingsAre, ExpectedSized
  <2> QED
    BY <2>1, <2>2, SetOptionKeeps
<1>7. ASSUME ExpectedRange PROVE Keeps(cli', cli)
  <2>1. PICK o \in Options(cli), range \in RangeArguments :
          SetOption("size", o, expected_range(cli.options[o], range[1], range[2]))
    BY <1>7 DEF ExpectedRange
  <2>2. IsOption(expected_range(cli.options[o], range[1], range[2]), DOMAIN cli.options)
    BY SizesAssumption, ThingsAre, ExpectedRangeSized
  <2> QED
    BY <2>1, <2>2, SetOptionKeeps
<1>8. ASSUME Policy PROVE Keeps(cli', cli)
  <2>1. PICK o \in Options(cli), policy \in {"Throw", "TakeAll"} :
          SetOption("size", o, multi_option_policy(cli.options[o], policy))
    BY <1>8 DEF Policy
  <2>2. IsOption(multi_option_policy(cli.options[o], policy), DOMAIN cli.options)
    BY ThingsAre, PolicySized
  <2> QED
    BY <2>1, <2>2, SetOptionKeeps
<1>9. ASSUME Needs PROVE Keeps(cli', cli)
  <2>1. PICK o \in Options(cli), p \in Options(cli) :
          SetOption("link", o, [cli.options[o] EXCEPT !.needs = @ \cup {p}])
    BY <1>9 DEF Needs
  <2>2. IsOption([cli.options[o] EXCEPT !.needs = @ \cup {p}], DOMAIN cli.options)
    <3>1. cli.options[o].needs \cup {p} \in SUBSET DOMAIN cli.options
      BY ThingsAre DEF IsOption
    <3> QED
      BY <3>1, ThingsAre, LinkedIsOption
  <2> QED
    BY <2>1, <2>2, SetOptionKeeps
<1>10. ASSUME Excludes PROVE Keeps(cli', cli)
  <2>1. PICK o \in Options(cli), p \in Options(cli) : cli' = excludes(cli, o, p).cli
    BY <1>10 DEF Excludes, Makes
  <2> QED
    BY <2>1, ThingsAre, ExcludesKeeps
<1>11. ASSUME RemoveNeeds PROVE Keeps(cli', cli)
  <2>1. PICK o, p :
          o \in Options(cli) /\ SetOption("unlink", o, [cli.options[o] EXCEPT !.needs = @ \ {p}])
    BY <1>11 DEF RemoveNeeds
  <2>2. IsOption([cli.options[o] EXCEPT !.needs = @ \ {p}], DOMAIN cli.options)
    <3>1. cli.options[o].needs \ {p} \in SUBSET DOMAIN cli.options
      BY <2>1, ThingsAre DEF IsOption
    <3> QED
      BY <2>1, <3>1, ThingsAre, LinkedIsOption
  <2> QED
    BY <2>1, <2>2, SetOptionKeeps
<1>12. ASSUME RemoveExcludes PROVE Keeps(cli', cli)
  <2>1. PICK o, p :
          o \in Options(cli) /\ SetOption("unlink", o, [cli.options[o] EXCEPT !.excludes = @ \ {p}])
    BY <1>12 DEF RemoveExcludes
  <2>2. IsOption([cli.options[o] EXCEPT !.excludes = @ \ {p}], DOMAIN cli.options)
    <3>1. cli.options[o].excludes \ {p} \in SUBSET DOMAIN cli.options
      BY <2>1, ThingsAre DEF IsOption
    <3> QED
      BY <2>1, <3>1, ThingsAre, LinkedIsOption
  <2> QED
    BY <2>1, <2>2, SetOptionKeeps
<1> QED
  BY <1>1, <1>2, <1>3, <1>4, <1>5, <1>6, <1>7, <1>8, <1>9, <1>10, <1>11, <1>12
  DEF ChangeOption

(***************************************************************************)
(* So does each call that makes, removes or moves an app.                  *)
(***************************************************************************)
LEMMA ChangeAppsKeeps ==
  ASSUME WellFormed(cli), EnoughIds(cli, 1), ChangeApps
  PROVE  Keeps(cli', cli)
<1>1. ASSUME AddSubcommand \/ AddOptionGroup PROVE Keeps(cli', cli)
  <2>1. PICK a, n : a \in Apps(cli) /\ cli' = add_subcommand(cli, a, n).cli
    BY <1>1 DEF AddSubcommand, AddOptionGroup, Makes
  <2> QED
    BY <2>1, ThingsAre, AddSubcommandKeeps
<1>2. ASSUME RemoveSubcommand PROVE Keeps(cli', cli)
  <2>1. PICK a, sub :
          a \in Apps(cli) /\ cli' = remove_subcommand(cli, a, sub)
    BY <1>2 DEF RemoveSubcommand, Makes, Returns
  <2> QED
    BY <2>1, ThingsAre, RemoveSubcommandKeeps
<1>3. ASSUME MoveSubcommand PROVE Keeps(cli', cli)
  <2>1. PICK g \in Groups, sub \in Apps(cli) \ {Root} :
          g \notin Below(cli, sub) /\ cli' = move_subcommand(cli, g, sub).cli
    BY <1>3 DEF MoveSubcommand, Makes
  <2> QED
    BY <2>1, ThingsAre, MoveSubcommandKeeps DEF Groups
<1> QED
  BY <1>1, <1>2, <1>3 DEF ChangeApps

(***************************************************************************)
(* A call that changes one, or a link between two, leaves everything in    *)
(* its place.                                                              *)
(***************************************************************************)
LEMMA ChangeAppKeeps ==
  ASSUME WellFormed(cli), ChangeApp
  PROVE  SamePlaces(cli', cli)
<1>1. ASSUME Name PROVE SamePlaces(cli', cli)
  <2>1. PICK a \in Apps(cli), n \in CommandNames : cli' = set_name(cli, a, n).cli
    BY <1>1 DEF Name, Makes
  <2> QED
    BY <2>1, ThingsAre, SetNameKeeps
<1>2. ASSUME Alias PROVE SamePlaces(cli', cli)
  <2>1. PICK a \in Apps(cli), n \in CommandNames : cli' = alias(cli, a, n).cli
    BY <1>2 DEF Alias, Makes
  <2> QED
    BY <2>1, ThingsAre, AliasKeeps
<1>3. ASSUME AppIgnores PROVE SamePlaces(cli', cli)
  <2>1. PICK a \in Apps(cli), what \in Ignorable, value \in BOOLEAN :
          cli' = app_ignores(cli, a, what, value).cli
    BY <1>3 DEF AppIgnores, Makes
  <2> QED
    BY <2>1, ThingsAre, AppIgnoresKeeps
<1>4. ASSUME Disabled PROVE SamePlaces(cli', cli)
  <2>1. PICK a \in Apps(cli), value \in BOOLEAN :
          SetApp("disabled", a, [cli.apps[a] EXCEPT !.disabled = value])
    BY <1>4 DEF Disabled
  <2>2. SameTies([cli.apps[a] EXCEPT !.disabled = value], cli.apps[a])
    BY ThingsAre, OtherFieldKeepsTies DEF TiedFields
  <2> QED
    BY <2>1, <2>2, SetOneAppKeeps
<1>5. ASSUME AppExcludes PROVE SamePlaces(cli', cli)
  <2>1. PICK a \in Apps(cli), b \in Apps(cli) : cli' = app_excludes(cli, a, b).cli
    BY <1>5 DEF AppExcludes, Makes
  <2> QED
    BY <2>1, ThingsAre, AppExcludesKeeps
<1>6. ASSUME AppRemoveExcludes PROVE SamePlaces(cli', cli)
  <2>1. PICK a \in Apps(cli), b \in Apps(cli) : cli' = app_remove_excludes(cli, a, b)
    BY <1>6 DEF AppRemoveExcludes, Makes, Returns
  <2> QED
    BY <2>1, ThingsAre, AppRemoveExcludesKeeps
<1>7. ASSUME AppNeeds PROVE SamePlaces(cli', cli)
  <2>1. PICK a \in Apps(cli), b \in Apps(cli) :
          SetApp("app_link", a, [cli.apps[a] EXCEPT !.need_subs = @ \cup {b}])
    BY <1>7 DEF AppNeeds
  <2>2. SameTies([cli.apps[a] EXCEPT !.need_subs = @ \cup {b}], cli.apps[a])
    BY ThingsAre, OtherFieldKeepsTies DEF TiedFields
  <2> QED
    BY <2>1, <2>2, SetOneAppKeeps
<1>8. ASSUME Trigger PROVE SamePlaces(cli', cli)
  <2>1. PICK a \in Apps(cli), b \in Apps(cli), startup \in {"enabled", "disabled"} :
          cli' = trigger(cli, a, b, startup)
    BY <1>8 DEF Trigger, Makes, Returns
  <2> QED
    BY <2>1, ThingsAre, TriggerKeeps
<1>9. ASSUME Callback PROVE SamePlaces(cli', cli)
  <2>1. PICK a \in Apps(cli) : SetApp("callback", a, callback(cli.apps[a]))
    BY <1>9 DEF Callback
  <2>2. SameTies(callback(cli.apps[a]), cli.apps[a])
    BY ThingsAre, OtherFieldKeepsTies DEF TiedFields, callback
  <2> QED
    BY <2>1, <2>2, SetOneAppKeeps
<1>10. ASSUME ImmediateCallback PROVE SamePlaces(cli', cli)
  <2>1. PICK a \in Apps(cli), value \in BOOLEAN :
          SetApp("callback", a, immediate_callback(cli.apps[a], value))
    BY <1>10 DEF ImmediateCallback
  <2>2. /\ TiedFields \subseteq DOMAIN cli.apps[a]
        /\ {"immediate_callback", "parse_complete", "final"} \cap TiedFields = {}
    BY ThingsAre DEF DefaultApp, TiedFields
  <2>3. SameTies(immediate_callback(cli.apps[a], value), cli.apps[a])
    BY <2>2 DEF SameTies, TiedFields, immediate_callback
  <2> QED
    BY <2>1, <2>3, SetOneAppKeeps
<1> QED
  BY <1>1, <1>2, <1>3, <1>4, <1>5, <1>6, <1>7, <1>8, <1>9, <1>10 DEF ChangeApp

(***************************************************************************)
(* A call always has identities left.                                      *)
(***************************************************************************)
LEMMA RoomForACall ==
  ASSUME IInv, calls < MaxCalls
  PROVE  EnoughIds(cli, 1) /\ Room(cli, 1)
<1>1. /\ Cardinality(DOMAIN cli.apps) \in Nat /\ Cardinality(DOMAIN cli.options) \in Nat
      /\ Cardinality(AppIds) \in Nat /\ Cardinality(OptionIds) \in Nat
  BY Counted, IdsAssumption, FS_CardinalityType DEF IInv
<1> QED
  BY <1>1, ProgramsAssumption DEF IInv, EnoughIds, Room

(***************************************************************************)
(* So does every call.                                                     *)
(***************************************************************************)
LEMMA StepKeeps ==
  ASSUME IInv, Next
  PROVE  Keeps(cli', cli) /\ calls < MaxCalls /\ calls' = calls + 1
<1>1. calls < MaxCalls /\ calls' = calls + 1
  BY DEF Next, Makes, SetOption, SetApp,
         ChangeOptions, AddOption, AddFlag, RemoveOption, RetireOption, SetFlag, SetConfig,
         MoveOption,
         ChangeOption, OptionIgnores, IgnoreByDefault, RequireByDefault, TypeSize, TypeSizes,
         Expected, ExpectedRange, Policy, Needs, Excludes, RemoveNeeds, RemoveExcludes,
         ChangeApps, AddSubcommand, AddOptionGroup, RemoveSubcommand, MoveSubcommand,
         ChangeApp, Name, Alias, AppIgnores, Disabled, AppExcludes, AppRemoveExcludes,
         AppNeeds, Trigger, Callback, ImmediateCallback
<1>2. EnoughIds(cli, 1) /\ Room(cli, 1)
  BY <1>1, RoomForACall
<1>3. Keeps(cli', cli)
  BY <1>2, ChangeOptionsKeeps, ChangeOptionKeeps, ChangeAppsKeeps, ChangeAppKeeps,
     SamePlacesKeep DEF Next, IInv
<1> QED
  BY <1>1, <1>3

(***************************************************************************)
(* The invariant holds at first and with every call.                       *)
(***************************************************************************)
LEMMA Inductive ==
  /\ Init => IInv
  /\ IInv /\ [Next]_vars => IInv'
<1>1. ASSUME Init PROVE IInv
  BY <1>1, ProgramsAssumption DEF Init, IInv
<1>2. ASSUME IInv, Next PROVE IInv'
  <2>1. Keeps(cli', cli) /\ calls < MaxCalls /\ calls' = calls + 1
    BY <1>2, StepKeeps
  <2>2. WellFormed(cli') /\ calls' \in 0 .. MaxCalls
    BY <1>2, <2>1, ProgramsAssumption DEF Keeps, IInv
  <2>3. /\ Cardinality(DOMAIN cli.apps) \in Nat /\ Cardinality(DOMAIN cli.options) \in Nat
        /\ Cardinality(DOMAIN cli'.apps) \in Nat /\ Cardinality(DOMAIN cli'.options) \in Nat
        /\ Cardinality(AppIds) \in Nat /\ Cardinality(OptionIds) \in Nat
    BY <1>2, <2>2, Counted, IdsAssumption, FS_CardinalityType DEF IInv
  <2>4. EnoughIds(cli', MaxCalls - calls')
    BY <1>2, <2>1, <2>3, ProgramsAssumption DEF Keeps, IInv, EnoughIds
  <2> QED
    BY <2>2, <2>4 DEF IInv
<1>3. ASSUME IInv, UNCHANGED vars PROVE IInv'
  BY <1>3 DEF vars, IInv
<1> QED
  BY <1>1, <1>2, <1>3

(***************************************************************************)
(* In whatever way a program goes on to define its command line, the       *)
(* definition stays well-formed.                                           *)
(***************************************************************************)
THEOREM Invariant == Spec => []IInv
BY Inductive, PTL DEF Spec

(***************************************************************************)
(* Apps and options are in one place each: add_option, add_subcommand and  *)
(* the option groups, which move both between apps, never leave one in two *)
(* apps, nor a subcommand whose parent is another app.                     *)
(***************************************************************************)
THEOREM EverythingInOnePlace == Spec => []TypeOK
<1>1. IInv => TypeOK
  <2> SUFFICES ASSUME IInv PROVE TypeOK
    OBVIOUS
  <2>1. /\ Apps(cli) \subseteq DOMAIN cli.apps
        /\ \A o \in Options(cli) : cli.home[o] \in DOMAIN cli.apps
    BY ThingsAre DEF IInv, WellFormed, Shaped
  <2> QED
    BY <2>1 DEF IInv, WellFormed, Placed, TypeOK
<1> QED
  BY <1>1, Invariant, PTL

(***************************************************************************)
(* The help flags that an app looks for at the end of a parse (help_ptr_,  *)
(* help_all_ptr_) are options of its own, whatever was removed             *)
(* (remove_option), replaced (set_help_flag) or moved to a group           *)
(* (_move_option).                                                         *)
(***************************************************************************)
THEOREM HelpFlagsAreOwned == Spec => []HelpFlagsOwned
<1>1. IInv => HelpFlagsOwned
  BY ThingsAre DEF IInv, WellFormed, HelpFlagsOwned
<1> QED
  BY <1>1, Invariant, PTL

(***************************************************************************)
(* Of two subcommands each excludes the other or none does: App::excludes  *)
(* and remove_excludes change both, remove_subcommand clears both, and     *)
(* moving one to a group keeps that.                                       *)
(***************************************************************************)
THEOREM ExclusionsAreSymmetric == Spec => []ExclusionsSymmetric
<1>1. IInv => ExclusionsSymmetric
  BY DEF IInv, WellFormed, ExclusionsSymmetric
<1> QED
  BY <1>1, Invariant, PTL

(***************************************************************************)
(* Whatever sizes type_size, expected and multi_option_policy leave an     *)
(* option with, in any order of the calls, some number of strings is right *)
(* for it (_validate_results): the least number is swapped with the most   *)
(* where they are the wrong way round, and their products do not reach     *)
(* what counts as unlimited.                                               *)
(***************************************************************************)
THEOREM OptionsCanBeGiven == Spec => []EveryOptionCanBeGiven
<1>1. IInv => EveryOptionCanBeGiven
  BY ThingsAre, SizedCanBeGiven DEF IInv, IsOption, EveryOptionCanBeGiven
<1> QED
  BY <1>1, Invariant, PTL

(***************************************************************************)
(* When an option is removed or replaced no option beside it still needs   *)
(* or excludes it (remove_option, "Make sure no links exist").             *)
(***************************************************************************)
THEOREM LinksGoToo == Spec => LinksGoWithTheOption
<1> DEFINE A == \A a \in Apps(cli) \cap Apps(cli)' : \A o, p \in OwnOptions(cli, a) :
                  o \in OwnOptions(cli, a)' /\ p \notin Options(cli)' => p \notin Links(o)'
<1>1. ASSUME IInv, Next PROVE A
  BY <1>1, StepKeeps DEF Keeps, LinksGone, Links
<1>2. IInv /\ [Next]_vars => [A]_vars
  BY <1>1
<1> QED
  BY <1>2, Invariant, PTL DEF Spec, LinksGoWithTheOption
-----------------------------------------------------------------------------
(***************************************************************************)
(* What is shown of a definition is what its apps and options are, field   *)
(* by field.                                                               *)
(***************************************************************************)
LEMMA SameShown ==
  ASSUME NEW d, WellFormed(d), NEW e, WellFormed(e), DOMAIN d.apps \subseteq DOMAIN e.apps,
         \A a \in DOMAIN d.apps :
           /\ Subs(e, a) = Subs(d, a) /\ OwnOptions(e, a) = OwnOptions(d, a)
           /\ \A field \in DOMAIN DefaultApp : e.apps[a][field] = d.apps[a][field],
         \A o \in DOMAIN d.options, field \in DOMAIN DefaultOption :
           e.options[o][field] = d.options[o][field]
  PROVE  Shown(e) = Shown(d)
<1>1. Apps(d) \subseteq DOMAIN d.apps /\ Root \in DOMAIN d.apps /\ Options(d) \subseteq DOMAIN d.options
  BY AppsAre, OptionsOfApps
<1>2. Apps(e) = Apps(d)
  BY <1>1, SameSubsSameBelow DEF Apps
<1>3. Options(e) = Options(d)
  BY <1>1, <1>2 DEF Options
<1>4. \A a \in Apps(d) : [field \in DOMAIN DefaultApp |-> e.apps[a][field]]
                           = [field \in DOMAIN DefaultApp |-> d.apps[a][field]]
  BY <1>1
<1>5. \A o \in Options(d) : [field \in DOMAIN DefaultOption |-> e.options[o][field]]
                              = [field \in DOMAIN DefaultOption |-> d.options[o][field]]
  BY <1>1
<1> QED
  BY <1>2, <1>3, <1>4, <1>5 DEF Shown

(***************************************************************************)
(* An app that is nowhere yet is not shown: so it does not matter that     *)
(* add_subcommand does not take it away when its name is refused.          *)
(***************************************************************************)
LEMMA BornIsNotShown ==
  ASSUME NEW d, WellFormed(d), NEW sub, NEW n, NEW e, IsBorn(e, d, sub, n)
  PROVE  Shown(e) = Shown(d)
BY SameShown DEF IsBorn, Subs, OwnOptions

(***************************************************************************)
(* A flag that turned out to have a place is removed from an app of which  *)
(* it was the newest option: what is left is what was there before.        *)
(***************************************************************************)
LEMMA FlagTakenBack ==
  ASSUME NEW d, WellFormed(d), NEW a \in DOMAIN d.apps, NEW o, NEW e, AddsOption(e, d, a, o)
  PROVE  Shown(remove_option(e, a, o)) = Shown(d)
<1> DEFINE r == remove_option(e, a, o)
           own == d.apps[a].options
<1>1. WellFormed(e) /\ DOMAIN e.apps = DOMAIN d.apps /\ o \in OptionIds \ DOMAIN d.options
  BY DEF AddsOption
<1>2. IsRemoved(r, e, a, o) /\ WellFormed(r)
  BY <1>1, RemovedFacts, RemoveOptionWellFormed DEF WellFormed
<1>3. /\ own \in Seq(DOMAIN d.options) /\ Range(own) \subseteq DOMAIN d.options
      /\ \A b \in DOMAIN d.apps : DOMAIN d.apps[b] = DOMAIN DefaultApp
  BY OwnOptionsAre DEF WellFormed, Shaped, OwnOptions
<1>4. RemoveFirst(Append(own, o), o) = own
  <2> HIDE DEF own
  <2> QED
    BY <1>1, <1>3, RemovedAgain
<1>5. d.apps[a].help # o /\ d.apps[a].help_all # o
  BY <1>1, <1>3, IdsAssumption DEF WellFormed, HelpOwned, OwnOptions
<1>6. /\ e.apps[a] = [d.apps[a] EXCEPT !.options = Append(own, o)]
      /\ \A b \in DOMAIN d.apps : b # a => e.apps[b] = d.apps[b]
  BY DEF AddsOption
<1>7. \A b \in DOMAIN d.apps, field \in DOMAIN DefaultApp :
        r.apps[b][field] = d.apps[b][field]
  <2> SUFFICES ASSUME NEW field \in DOMAIN DefaultApp
               PROVE  r.apps[a][field] = d.apps[a][field]
    BY <1>1, <1>2, <1>6 DEF IsRemoved
  <2>1. CASE field \in {"options", "help", "help_all"}
    BY <1>2, <1>3, <1>4, <1>5, <1>6, <2>1 DEF IsRemoved
  <2>2. CASE field \notin {"options", "help", "help_all"}
    <3>1. r.apps[a][field] = e.apps[a][field]
      BY <1>1, <2>2 DEF remove_option, WellFormed, Shaped
    <3> QED
      BY <1>3, <1>6, <2>2, <3>1
  <2> QED
    BY <2>1, <2>2
<1>8. \A p \in DOMAIN d.options, field \in DOMAIN DefaultOption :
        r.options[p][field] = d.options[p][field]
  <2> SUFFICES ASSUME NEW p \in DOMAIN d.options, NEW field \in DOMAIN DefaultOption
               PROVE  r.options[p][field] = d.options[p][field]
    OBVIOUS
  <2> DEFINE old == d.options[p]
  <2>1. r.options[p] \in {old, Unlinked(old, o)}
    BY <1>2 DEF IsRemoved, AddsOption
  <2>2. IsOption(old, DOMAIN d.options)
    BY OptionsAre DEF WellFormed
  <2> HIDE DEF old
  <2>3. Unlinked(old, o)[field] = old[field]
    <3>1. /\ DOMAIN old = DOMAIN DefaultOption
          /\ old.needs \ {o} = old.needs /\ old.excludes \ {o} = old.excludes
      BY <1>1, <2>2 DEF IsOption
    <3> QED
      BY <3>1 DEF Unlinked
  <2> QED
    BY <2>1, <2>3 DEF old
<1>9. \A b \in DOMAIN d.apps : Subs(r, b) = Subs(d, b) /\ OwnOptions(r, b) = OwnOptions(d, b)
  <2>1. {"subs", "options"} \subseteq DOMAIN DefaultApp
    BY DEF DefaultApp
  <2> QED
    BY <1>7, <2>1 DEF Subs, OwnOptions
<1> QED
  <2> HIDE DEF r
  <2>1. DOMAIN r.apps = DOMAIN d.apps
    BY <1>1, <1>2 DEF IsRemoved
  <2>2. Shown(r) = Shown(d)
    BY <1>2, <1>7, <1>8, <1>9, <2>1, SameShown
  <2> QED
    BY <2>2 DEF r


(***************************************************************************)
(* What FailuresRollBack says of a call that throws.                       *)
(***************************************************************************)
RolledBack ==
  \/ Shown(cli') = Shown(cli)
  \/ call' \in Replacing \/ (call' \in {"add_option", "add_flag"} /\ IgnoringByDefault)

(***************************************************************************)
(* So it is with the calls about the options of an app,                    *)
(***************************************************************************)
LEMMA OptionsRollBack ==
  ASSUME IInv, Room(cli, 1), ChangeOptions, thrown' # "none"
  PROVE  RolledBack
<1>1. WellFormed(cli)
  BY DEF IInv
<1>2. ASSUME AddOption PROVE RolledBack
  <2>1. PICK a \in Apps(cli), names \in OptionNames : Makes("add_option", add_option(cli, a, names))
    BY <1>2 DEF AddOption
  <2> DEFINE out == add_option(cli, a, names)
  <2>2. cli' = out.cli /\ out.thrown # "none" /\ call' = "add_option"
    BY <2>1 DEF Makes
  <2>3. a \in DOMAIN cli.apps
    BY <1>1, ThingsAre
  <2>4. out.cli = cli \/ cli.apps[a].defaults.ignore_case \/ cli.apps[a].defaults.ignore_underscore
    BY <1>1, <2>2, <2>3, AddOptionAdds, Zenon
  <2> HIDE DEF out
  <2> QED
    BY <2>2, <2>4 DEF RolledBack, IgnoringByDefault, Ignorable
<1>3. ASSUME AddFlag PROVE RolledBack
  <2>1. PICK a \in Apps(cli), names \in FlagNames : Makes("add_flag", add_flag(cli, a, names))
    BY <1>3 DEF AddFlag
  <2> DEFINE out == add_flag(cli, a, names)
             o == Unused(OptionIds, cli.options)
  <2>2. cli' = out.cli /\ out.thrown # "none" /\ call' = "add_flag"
    BY <2>1 DEF Makes
  <2>3. a \in DOMAIN cli.apps
    BY <1>1, ThingsAre
  <2>4. FlagOutcome(out, cli, a, o)
    BY <1>1, <2>3, AddFlagAdds
  <2> HIDE DEF out, o
  <2>5. \/ out.cli = cli
        \/ \E e : AddsOption(e, cli, a, o) /\ out.cli = remove_option(e, a, o)
        \/ cli.apps[a].defaults.ignore_case \/ cli.apps[a].defaults.ignore_underscore
    BY <2>2, <2>4 DEF FlagOutcome
  <2>6. ASSUME NEW e, AddsOption(e, cli, a, o), out.cli = remove_option(e, a, o)
        PROVE  RolledBack
    BY <1>1, <2>2, <2>3, <2>6, FlagTakenBack DEF RolledBack
  <2> QED
    BY <2>2, <2>5, <2>6 DEF RolledBack, IgnoringByDefault, Ignorable
<1>4. ASSUME RemoveOption PROVE FALSE
  BY <1>4 DEF RemoveOption, Makes, Returns
<1>5. ASSUME RetireOption \/ SetFlag \/ SetConfig PROVE RolledBack
  BY <1>5 DEF RetireOption, SetFlag, SetConfig, Makes, RolledBack, Replacing
<1>6. ASSUME MoveOption PROVE RolledBack
  <2>1. PICK g \in Groups, o \in Options(cli) : Makes("move_option", move_option(cli, g, o))
    BY <1>6 DEF MoveOption
  <2>2. move_option(cli, g, o).cli = cli
    BY <1>1, <2>1, MoveOptionKeeps DEF Groups, Makes
  <2> QED
    BY <2>1, <2>2 DEF Makes, RolledBack
<1> QED
  BY <1>2, <1>3, <1>4, <1>5, <1>6 DEF ChangeOptions

(***************************************************************************)
(* with those about one option,                                            *)
(***************************************************************************)
LEMMA OptionRollsBack ==
  ASSUME IInv, ChangeOption, thrown' # "none"
  PROVE  RolledBack
<1>1. WellFormed(cli)
  BY DEF IInv
<1>2. ASSUME OptionIgnores PROVE RolledBack
  <2>1. PICK o \in Options(cli), what \in Ignorable, value \in BOOLEAN :
          Makes("option_ignores", option_ignores(cli, o, what, value))
    BY <1>2 DEF OptionIgnores
  <2>2. option_ignores(cli, o, what, value).cli = cli
    BY <1>1, <2>1, ThingsAre, OptionIgnoresKeeps DEF Makes
  <2> QED
    BY <2>1, <2>2 DEF Makes, RolledBack
<1>3. ASSUME Excludes PROVE RolledBack
  <2>1. PICK o, p \in Options(cli) : Makes("link", excludes(cli, o, p))
    BY <1>3 DEF Excludes
  <2>2. excludes(cli, o, p).cli = cli
    BY <1>1, <2>1, ThingsAre, ExcludesKeeps DEF Makes
  <2> QED
    BY <2>1, <2>2 DEF Makes, RolledBack
<1> QED
  BY <1>2, <1>3
  DEF ChangeOption, IgnoreByDefault, RequireByDefault, TypeSize, TypeSizes, Expected,
      ExpectedRange, Policy, Needs, RemoveNeeds, RemoveExcludes, SetOption, SetApp, Makes, Returns

(***************************************************************************)
(* with those about the subcommands of an app,                             *)
(***************************************************************************)
LEMMA AppsRollBack ==
  ASSUME IInv, EnoughIds(cli, 1), ChangeApps, thrown' # "none"
  PROVE  RolledBack
<1>1. WellFormed(cli)
  BY DEF IInv
<1>2. ASSUME AddSubcommand \/ AddOptionGroup PROVE RolledBack
  <2>1. PICK op, a, n : a \in Apps(cli) /\ Makes(op, add_subcommand(cli, a, n))
    BY <1>2 DEF AddSubcommand, AddOptionGroup
  <2> DEFINE out == add_subcommand(cli, a, n)
  <2>2. cli' = out.cli /\ out.thrown # "none" /\ a \in DOMAIN cli.apps
    BY <1>1, <2>1, ThingsAre DEF Makes
  <2>3. out.cli = cli \/ \E sub : IsBorn(out.cli, cli, sub, 2)
    BY <1>1, <2>2, AddSubcommandKeeps
  <2> HIDE DEF out
  <2> QED
    BY <1>1, <2>2, <2>3, BornIsNotShown DEF RolledBack
<1>3. ASSUME RemoveSubcommand PROVE FALSE
  BY <1>3 DEF RemoveSubcommand, Makes, Returns
<1>4. ASSUME MoveSubcommand PROVE RolledBack
  BY <1>4 DEF MoveSubcommand, Makes, RolledBack, Replacing
<1> QED
  BY <1>2, <1>3, <1>4 DEF ChangeApps

(***************************************************************************)
(* and with those about one app.                                           *)
(***************************************************************************)
LEMMA AppRollsBack ==
  ASSUME IInv, ChangeApp, thrown' # "none"
  PROVE  RolledBack
<1>1. WellFormed(cli) /\ Apps(cli) \subseteq DOMAIN cli.apps
  BY ThingsAre DEF IInv
<1>2. ASSUME Name PROVE RolledBack
  <2>1. PICK a \in Apps(cli), n \in CommandNames : Makes("name", set_name(cli, a, n))
    BY <1>2 DEF Name
  <2>2. set_name(cli, a, n).cli = cli
    BY <1>1, <2>1, SetNameKeeps DEF Makes
  <2> QED
    BY <2>1, <2>2 DEF Makes, RolledBack
<1>3. ASSUME Alias PROVE RolledBack
  <2>1. PICK a \in Apps(cli), n \in CommandNames : Makes("alias", alias(cli, a, n))
    BY <1>3 DEF Alias
  <2>2. alias(cli, a, n).cli = cli
    BY <1>1, <2>1, AliasKeeps DEF Makes
  <2> QED
    BY <2>1, <2>2 DEF Makes, RolledBack
<1>4. ASSUME AppIgnores PROVE RolledBack
  <2>1. PICK a \in Apps(cli), what \in Ignorable, value \in BOOLEAN :
          Makes("app_ignores", app_ignores(cli, a, what, value))
    BY <1>4 DEF AppIgnores
  <2>2. app_ignores(cli, a, what, value).cli = cli
    BY <1>1, <2>1, AppIgnoresKeeps DEF Makes
  <2> QED
    BY <2>1, <2>2 DEF Makes, RolledBack
<1>5. ASSUME AppExcludes PROVE RolledBack
  <2>1. PICK a, b \in Apps(cli) : Makes("app_link", app_excludes(cli, a, b))
    BY <1>5 DEF AppExcludes
  <2>2. app_excludes(cli, a, b).cli = cli
    BY <1>1, <2>1, AppExcludesKeeps DEF Makes
  <2> QED
    BY <2>1, <2>2 DEF Makes, RolledBack
<1> QED
  BY <1>2, <1>3, <1>4, <1>5
  DEF ChangeApp, Disabled, AppRemoveExcludes, AppNeeds, Trigger, Callback, ImmediateCallback,
      SetApp, Makes, Returns

(***************************************************************************)
(* A call that throws leaves the definition as it was ("we are throwing so *)
(* need to be exception invariant"): names, aliases and what is ignored    *)
(* are put back, a flag that has a place is removed, and a subcommand      *)
(* whose name is refused is in no app.  The calls that put one thing in    *)
(* the place of another, and those by which an option is made that ignores *)
(* something by default, do not roll back.                                 *)
(***************************************************************************)
THEOREM FailuresAreRolledBack == Spec => FailuresRollBack
<1> DEFINE A == thrown' # "none" =>
                  \/ Shown(cli)' = Shown(cli)
                  \/ call' \in Replacing
                  \/ call' \in {"add_option", "add_flag"} /\ IgnoringByDefault
<1>1. ASSUME IInv, Next PROVE A
  <2>1. EnoughIds(cli, 1) /\ Room(cli, 1)
    BY <1>1, RoomForACall DEF Next
  <2>2. thrown' # "none" => RolledBack
    BY <1>1, <2>1, OptionsRollBack, OptionRollsBack, AppsRollBack, AppRollsBack DEF Next
  <2> QED
    BY <2>2 DEF RolledBack
<1>2. IInv /\ [Next]_vars => [A]_vars
  BY <1>1
<1> QED
  BY <1>2, Invariant, PTL DEF Spec, FailuresRollBack
-----------------------------------------------------------------------------

(***************************************************************************)
(* What SelectInSeq finds is a place in the sequence if there is one to be *)
(* found, and 0 if not.                                                    *)
(***************************************************************************)
LEMMA FoundIsPlace ==
  ASSUME NEW n, NEW I \in SUBSET (1 .. n)
  PROVE  (IF I # {} THEN Min(I) ELSE 0) > 0 <=> I # {}
<1>1. I \in SUBSET Nat /\ \A i \in I : i > 0
  OBVIOUS
<1>2. ASSUME I # {} PROVE Min(I) > 0
  <2>1. PICK k \in I : \A m \in I : k <= m
    BY <1>1, <1>2, LeastNumber
  <2>2. Min(I) \in I
    BY <2>1 DEF Min
  <2> QED
    BY <1>1, <2>2
<1> QED
  BY <1>2

(***************************************************************************)
(* Two names that are one to an option: of the short ones and of the long  *)
(* ones, for which underscores may be ignored.                             *)
(***************************************************************************)
OneShort(m, n, opt) == Folded(m, opt.ignore_case, FALSE) = Folded(n, opt.ignore_case, FALSE)
OneLong(m, n, opt) ==
  Folded(m, opt.ignore_case, opt.ignore_underscore)
    = Folded(n, opt.ignore_case, opt.ignore_underscore)

(***************************************************************************)
(* An option knows another one by a short or by a long name.               *)
(***************************************************************************)
KnowsShort(opt, other) ==
  \E i \in 1 .. Len(other.snames), j \in 1 .. Len(opt.snames) :
    OneShort(opt.snames[j], other.snames[i], opt)

KnowsLong(opt, other) ==
  \E i \in 1 .. Len(other.lnames), j \in 1 .. Len(opt.lnames) :
    OneLong(opt.lnames[j], other.lnames[i], opt)

(***************************************************************************)
(* That is what Knows says of them (check_sname and check_lname).          *)
(***************************************************************************)
LEMMA KnowsIs ==
  ASSUME NEW opt, NEW other
  PROVE  Knows(opt, other) <=> KnowsShort(opt, other) \/ KnowsLong(opt, other)
<1>1. ASSUME NEW name
      PROVE  check_sname(opt, name) <=>
               \E j \in 1 .. Len(opt.snames) : OneShort(opt.snames[j], name, opt)
  <2> DEFINE I == {j \in 1 .. Len(opt.snames) : OneShort(opt.snames[j], name, opt)}
  <2>1. check_sname(opt, name) <=> (IF I # {} THEN Min(I) ELSE 0) > 0
    BY DEF check_sname, find_member, SelectInSeq, OneShort
  <2>2. I \in SUBSET (1 .. Len(opt.snames))
    OBVIOUS
  <2>3. I # {} <=> \E j \in 1 .. Len(opt.snames) : OneShort(opt.snames[j], name, opt)
    OBVIOUS
  <2> HIDE DEF I
  <2> QED
    BY <2>1, <2>2, <2>3, FoundIsPlace
<1>2. ASSUME NEW name
      PROVE  check_lname(opt, name) <=>
               \E j \in 1 .. Len(opt.lnames) : OneLong(opt.lnames[j], name, opt)
  <2> DEFINE I == {j \in 1 .. Len(opt.lnames) : OneLong(opt.lnames[j], name, opt)}
  <2>1. check_lname(opt, name) <=> (IF I # {} THEN Min(I) ELSE 0) > 0
    BY DEF check_lname, find_member, SelectInSeq, OneLong
  <2>2. I \in SUBSET (1 .. Len(opt.lnames))
    OBVIOUS
  <2>3. I # {} <=> \E j \in 1 .. Len(opt.lnames) : OneLong(opt.lnames[j], name, opt)
    OBVIOUS
  <2> HIDE DEF I
  <2> QED
    BY <2>1, <2>2, <2>3, FoundIsPlace
<1> QED
  BY <1>1, <1>2 DEF Knows, KnowsShort, KnowsLong

(***************************************************************************)
(* A symbol is lowered and has its underscores removed in any order: so it *)
(* is with characters (std::tolower does nothing to an underscore and      *)
(* makes none).                                                            *)
(***************************************************************************)
Commute == \A symbol : to_lower(remove_underscore(symbol)) = remove_underscore(to_lower(symbol))

(***************************************************************************)
(* An option that ignores no more than another one.                        *)
(***************************************************************************)
IgnoresLess(opt, old) ==
  /\ opt.ignore_case => old.ignore_case
  /\ opt.ignore_underscore => old.ignore_underscore

(***************************************************************************)
(* What is one name to an option is one name to an option that ignores     *)
(* more. This is where the order of lowering and removing must not matter. *)
(***************************************************************************)
LEMMA OneToMore ==
  ASSUME Commute, NEW opt, NEW old, IgnoresLess(opt, old), NEW m, NEW n
  PROVE  /\ OneShort(m, n, opt) => OneShort(m, n, old)
         /\ OneLong(m, n, opt) => OneLong(m, n, old)
<1>1. ASSUME OneShort(m, n, opt)
      PROVE  OneShort(m, n, old)
  <2>1. DOMAIN m = DOMAIN n
    BY <1>1 DEF OneShort, Folded
  <2>2. \A i \in DOMAIN m : (IF opt.ignore_case THEN to_lower(m[i]) ELSE m[i])
                              = (IF opt.ignore_case THEN to_lower(n[i]) ELSE n[i])
    BY <1>1, <2>1 DEF OneShort, Folded
  <2>3. \A i \in DOMAIN m : (IF old.ignore_case THEN to_lower(m[i]) ELSE m[i])
                              = (IF old.ignore_case THEN to_lower(n[i]) ELSE n[i])
    BY <2>2 DEF IgnoresLess
  <2> QED
    BY <2>1, <2>3 DEF OneShort, Folded
<1>2. ASSUME OneLong(m, n, opt)
      PROVE  OneLong(m, n, old)
  <2> DEFINE plain(s, o) == IF o.ignore_underscore THEN remove_underscore(s) ELSE s
             one(s, o) == IF o.ignore_case THEN to_lower(plain(s, o)) ELSE plain(s, o)
  <2>1. DOMAIN m = DOMAIN n
    BY <1>2 DEF OneLong, Folded
  <2>2. \A i \in DOMAIN m : one(m[i], opt) = one(n[i], opt)
    BY <1>2, <2>1 DEF OneLong, Folded
  <2>3. ASSUME NEW s, NEW t, one(s, opt) = one(t, opt)
        PROVE  one(s, old) = one(t, old)
    BY <2>3 DEF IgnoresLess, Commute
  <2>4. \A i \in DOMAIN m : one(m[i], old) = one(n[i], old)
    BY <2>2, <2>3
  <2> QED
    BY <2>1, <2>4 DEF OneLong, Folded
<1> QED
  BY <1>1, <1>2

(***************************************************************************)
(* Options of the same names.                                              *)
(***************************************************************************)
SameNames(opt, old) == opt.snames = old.snames /\ opt.lnames = old.lnames

(***************************************************************************)
(* An option knows no more when it ignores less, whatever the other one    *)
(* ignores: the names of the other are taken as they are.                  *)
(***************************************************************************)
LEMMA KnowsMore ==
  ASSUME Commute, NEW opt, NEW old, SameNames(opt, old), IgnoresLess(opt, old),
         NEW other, NEW before, SameNames(other, before), Knows(opt, other)
  PROVE  Knows(old, before)
<1>1. KnowsShort(opt, other) => KnowsShort(old, before)
  BY OneToMore DEF KnowsShort, SameNames
<1>2. KnowsLong(opt, other) => KnowsLong(old, before)
  BY OneToMore DEF KnowsLong, SameNames
<1> QED
  BY <1>1, <1>2, KnowsIs

(***************************************************************************)
(* An option that ignores nothing knows another one only if that one knows *)
(* it: therefore matching_name need not ask it, and what it turns down are *)
(* all the clashes of two options.                                         *)
(***************************************************************************)
LEMMA NoMatchIsNoClash ==
  ASSUME Commute, NEW opt, NEW other, ~matching_name(opt, other)
  PROVE  ~Knows(opt, other) /\ ~Knows(other, opt)
<1>1. ~Knows(other, opt)
  BY DEF matching_name
<1>2. CASE opt.ignore_case \/ opt.ignore_underscore
  BY <1>2 DEF matching_name
<1>3. CASE ~opt.ignore_case /\ ~opt.ignore_underscore
  <2>1. IgnoresLess(opt, other)
    BY <1>3 DEF IgnoresLess
  <2>2. \A m, n : /\ OneShort(m, n, opt) => OneShort(n, m, other)
                  /\ OneLong(m, n, opt) => OneLong(n, m, other)
    <3>1. \A m, n : /\ OneShort(m, n, opt) => OneShort(m, n, other)
                    /\ OneLong(m, n, opt) => OneLong(m, n, other)
      BY <2>1, OneToMore
    <3>2. \A m, n : /\ OneShort(m, n, other) => OneShort(n, m, other)
                    /\ OneLong(m, n, other) => OneLong(n, m, other)
      BY DEF OneShort, OneLong
    <3> QED
      BY <3>1, <3>2
  <2>3. /\ KnowsShort(opt, other) => KnowsShort(other, opt)
        /\ KnowsLong(opt, other) => KnowsLong(other, opt)
    BY <2>2 DEF KnowsShort, KnowsLong
  <2> QED
    BY <1>1, <2>2, <2>3, KnowsIs
<1> QED
  BY <1>1, <1>2, <1>3

-----------------------------------------------------------------------------
(***************************************************************************)
(* No clash in e that was none in d, in any app, be it in the program or   *)
(* removed.                                                                *)
(***************************************************************************)
NoMoreClashes(e, d) ==
  \A a \in DOMAIN e.apps : \A o, p : Clash(e, a, o, p) => a \in DOMAIN d.apps /\ Clash(d, a, o, p)

(***************************************************************************)
(* A call in several steps makes no clash if no step does.                 *)
(***************************************************************************)
LEMMA NoMoreThroughout ==
  ASSUME NEW d, NEW e, NEW f, NoMoreClashes(f, e), NoMoreClashes(e, d)
  PROVE  NoMoreClashes(f, d)
BY DEF NoMoreClashes

(***************************************************************************)
(* An option that is where it was, has the names it had and ignores no     *)
(* more.                                                                   *)
(***************************************************************************)
Stays(e, d, a, o) ==
  /\ a \in DOMAIN d.apps /\ o \in OwnOptions(d, a) /\ e.home[o] = d.home[o]
  /\ SameNames(e.options[o], d.options[o]) /\ IgnoresLess(e.options[o], d.options[o])

(***************************************************************************)
(* An option that knows no other of the app and is known to none.          *)
(***************************************************************************)
Unknown(e, a, o) ==
  \A p \in OwnOptions(e, a) \ {o} :
    ~Knows(e.options[o], e.options[p]) /\ ~Knows(e.options[p], e.options[o])

(***************************************************************************)
(* The heart of the argument. If all options stay but one, and that one is *)
(* unknown where it is checked, there is no new clash.                     *)
(***************************************************************************)
LEMMA OneAside ==
  ASSUME Commute, NEW d, NEW e, NEW x,
         \A a \in DOMAIN e.apps : \A o \in OwnOptions(e, a) \ {x} : Stays(e, d, a, o),
         \A a \in DOMAIN e.apps :
           x \in OwnOptions(e, a) /\ e.home[x] = a => Stays(e, d, a, x) \/ Unknown(e, a, x)
  PROVE  NoMoreClashes(e, d)
<1> SUFFICES ASSUME NEW a \in DOMAIN e.apps, NEW o, NEW p, Clash(e, a, o, p)
             PROVE  a \in DOMAIN d.apps /\ Clash(d, a, o, p)
  BY DEF NoMoreClashes
<1>1. /\ o \in OwnOptions(e, a) /\ p \in OwnOptions(e, a) /\ o # p
      /\ e.home[o] = a /\ e.home[p] = a
      /\ Knows(e.options[o], e.options[p]) \/ Knows(e.options[p], e.options[o])
  BY DEF Clash
<1>2. Stays(e, d, a, o) /\ Stays(e, d, a, p)
  BY <1>1 DEF Unknown
<1>3. Knows(d.options[o], d.options[p]) \/ Knows(d.options[p], d.options[o])
  BY <1>1, <1>2, KnowsMore DEF Stays
<1> QED
  BY <1>1, <1>2, <1>3 DEF Stays, Clash

(***************************************************************************)
(* If all options stay there is none either.                               *)
(***************************************************************************)
LEMMA AllStay ==
  ASSUME Commute, NEW d, NEW e,
         \A a \in DOMAIN e.apps : \A o \in OwnOptions(e, a) : Stays(e, d, a, o)
  PROVE  NoMoreClashes(e, d)
BY OneAside

(***************************************************************************)
(* A change of an option that is none of its names.                        *)
(***************************************************************************)
SameNamed(opt, old) ==
  /\ opt.snames = old.snames /\ opt.lnames = old.lnames
  /\ opt.ignore_case = old.ignore_case /\ opt.ignore_underscore = old.ignore_underscore

(***************************************************************************)
(* Such an option stays.                                                   *)
(***************************************************************************)
LEMMA SameNamedStays ==
  ASSUME NEW d, NEW e, NEW a \in DOMAIN d.apps, NEW o \in OwnOptions(d, a),
         e.home[o] = d.home[o], SameNamed(e.options[o], d.options[o])
  PROVE  Stays(e, d, a, o)
BY DEF Stays, SameNamed, SameNames, IgnoresLess

(***************************************************************************)
(* An option may be changed so that it ignores less.                       *)
(***************************************************************************)
LEMMA SetNoMore ==
  ASSUME Commute, NEW d, WellFormed(d), NEW o \in DOMAIN d.options, NEW opt,
         SameNames(opt, d.options[o]), IgnoresLess(opt, d.options[o])
  PROVE  NoMoreClashes(Set(d, o, opt), d)
<1> DEFINE e == Set(d, o, opt)
<1>1. /\ e.apps = d.apps /\ e.home = d.home
      /\ \A p \in DOMAIN d.options : e.options[p] = IF p = o THEN opt ELSE d.options[p]
  BY SetFacts DEF WellFormed
<1> HIDE DEF e
<1>2. ASSUME NEW a \in DOMAIN e.apps, NEW p \in OwnOptions(e, a)
      PROVE  Stays(e, d, a, p)
  <2>1. a \in DOMAIN d.apps /\ p \in OwnOptions(d, a) /\ p \in DOMAIN d.options
    BY <1>1, OwnOptionsAre DEF WellFormed, OwnOptions
  <2> QED
    BY <1>1, <2>1 DEF Stays, SameNames, IgnoresLess
<1>3. NoMoreClashes(e, d)
  BY <1>2, AllStay
<1> QED
  BY <1>3 DEF e

(***************************************************************************)
(* It may be changed in all but its names.                                 *)
(***************************************************************************)
LEMMA SameNamedNoMore ==
  ASSUME Commute, NEW d, WellFormed(d), NEW o \in DOMAIN d.options, NEW opt,
         SameNamed(opt, d.options[o])
  PROVE  NoMoreClashes(Set(d, o, opt), d)
BY SetNoMore DEF SameNamed, SameNames, IgnoresLess

(***************************************************************************)
(* Option::ignore_case and ignore_underscore: what begins to ignore        *)
(* something is unknown in the app in which it was made, or the call       *)
(* throws. When it ceases to, it need not be checked.                      *)
(***************************************************************************)
LEMMA OptionIgnoresNoMore ==
  ASSUME Commute, NEW d, WellFormed(d), NEW o \in DOMAIN d.options, NEW what \in Ignorable, NEW value,
         option_ignores(d, o, what, value).thrown = "none"
  PROVE  NoMoreClashes(option_ignores(d, o, what, value).cli, d)
<1> DEFINE old == d.options[o]
           changed == [old EXCEPT ![what] = value]
           e == Set(d, o, changed)
           asked == value /\ ~old[what]
<1>1. /\ option_ignores(d, o, what, value).cli = e
      /\ asked => ~AlreadyIn(d, d.home[o], changed, {o})
  BY DEF option_ignores, Throws, Returns
<1>2. IsOption(old, DOMAIN d.options)
  BY OptionsAre DEF WellFormed
<1>3. /\ SameNames(changed, old)
      /\ ~asked => IgnoresLess(changed, old)
  <2>1. {"snames", "lnames", "ignore_case", "ignore_underscore"} \subseteq DOMAIN old
    BY <1>2 DEF IsOption, DefaultOption
  <2> HIDE DEF old
  <2>2. SameNames(changed, old)
    BY <2>1 DEF SameNames, Ignorable
  <2>3. CASE what = "ignore_case"
    BY <2>1, <2>2, <2>3 DEF IgnoresLess
  <2>4. CASE what = "ignore_underscore"
    BY <2>1, <2>2, <2>4 DEF IgnoresLess
  <2> QED
    BY <2>3, <2>4 DEF Ignorable
<1>4. CASE ~asked
  BY <1>1, <1>3, <1>4, SetNoMore
<1>5. CASE asked
  <2> HIDE DEF asked, changed
  <2>1. /\ e.apps = d.apps /\ e.home = d.home
        /\ \A p \in DOMAIN d.options : e.options[p] = IF p = o THEN changed ELSE d.options[p]
    BY SetFacts DEF WellFormed
  <2> HIDE DEF e
  <2>2. ASSUME NEW a \in DOMAIN e.apps, NEW p \in OwnOptions(e, a)
        PROVE  /\ a \in DOMAIN d.apps /\ p \in OwnOptions(d, a) /\ p \in DOMAIN d.options
               /\ p # o => Stays(e, d, a, p)
    <3>1. a \in DOMAIN d.apps /\ p \in OwnOptions(d, a) /\ p \in DOMAIN d.options
      BY <2>1, OwnOptionsAre DEF WellFormed, OwnOptions
    <3> QED
      BY <2>1, <3>1 DEF Stays, SameNames, IgnoresLess
  <2>3. ASSUME NEW a \in DOMAIN e.apps, e.home[o] = a
        PROVE  Unknown(e, a, o)
    <3> SUFFICES ASSUME NEW p \in OwnOptions(e, a) \ {o}
                 PROVE  ~Knows(e.options[o], e.options[p]) /\ ~Knows(e.options[p], e.options[o])
      BY DEF Unknown
    <3>1. p \in OwnOptions(d, d.home[o]) /\ p \in DOMAIN d.options /\ d.home[o] = a
      BY <2>1, <2>2, <2>3
    <3>2. e.options[p] = d.options[p] /\ e.options[o] = changed
      BY <2>1, <3>1
    <3> QED
      BY <1>1, <1>5, <3>1, <3>2, NoMatchIsNoClash DEF AlreadyIn
  <2>4. NoMoreClashes(e, d)
    BY <2>2, <2>3, OneAside
  <2> QED
    BY <1>1, <2>4
<1> QED
  BY <1>4, <1>5

(***************************************************************************)
(* What a name is and how it is compared.                                  *)
(***************************************************************************)
NameFields == {"snames", "lnames", "ignore_case", "ignore_underscore"}

(***************************************************************************)
(* Every option has them.                                                  *)
(***************************************************************************)
LEMMA NameFieldsAre == NameFields \subseteq DOMAIN DefaultOption
BY DEF NameFields, DefaultOption

(***************************************************************************)
(* That an option is required makes no clash.                              *)
(***************************************************************************)
LEMMA SetRequiredNoMore ==
  ASSUME Commute, NEW d, WellFormed(d), NEW o \in DOMAIN d.options, NEW value
  PROVE  LET b == [d EXCEPT !.options[o].required = value] IN
         NoMoreClashes(b, d) /\ OnlyOption(b, d, o)
<1> DEFINE opt == d.options[o]
           changed == [opt EXCEPT !.required = value]
           b == [d EXCEPT !.options[o].required = value]
<1>1. b = Set(d, o, changed)
  BY DEF Set
<1>2. IsOption(opt, DOMAIN d.options)
  BY OptionsAre DEF WellFormed
<1>3. IsOption(changed, DOMAIN d.options) /\ SameNamed(changed, opt)
  <2> HIDE DEF opt
  <2>1. SizedFields \subseteq DOMAIN opt /\ NameFields \subseteq DOMAIN opt
    BY <1>2, SizedFieldsAre, NameFieldsAre DEF IsOption
  <2> QED
    BY <1>2, <2>1 DEF IsOption, Sized, SizedFields, SameNamed, NameFields
<1> HIDE DEF changed, b
<1>4. NoMoreClashes(b, d) /\ OnlyOption(b, d, o)
  <2> HIDE DEF opt
  <2>1. SameNamed(changed, d.options[o])
    BY <1>3 DEF opt
  <2> QED
    BY <1>1, <1>3, <2>1, SetOnlyOption, SameNamedNoMore
<1> QED
  BY <1>4 DEF b

(***************************************************************************)
(* Nor does a policy.                                                      *)
(***************************************************************************)
LEMMA PolicyNames ==
  ASSUME NEW opt, NameFields \subseteq DOMAIN opt, NEW value
  PROVE  SameNamed(multi_option_policy(opt, value), opt)
BY DEF multi_option_policy, SameNamed, NameFields

(***************************************************************************)
(* Nor do all the defaults of an app (copy_to): what they ignore is        *)
(* checked one after the other.                                            *)
(***************************************************************************)
LEMMA CopyToNoMore ==
  ASSUME Commute, NEW d, WellFormed(d), NEW o \in DOMAIN d.options, NEW defaults,
         copy_to(d, defaults, o).thrown = "none"
  PROVE  NoMoreClashes(copy_to(d, defaults, o).cli, d)
<1> DEFINE b == [d EXCEPT !.options[o].required = defaults.required]
           first == option_ignores(b, o, "ignore_case", defaults.ignore_case)
           second == option_ignores(first.cli, o, "ignore_underscore", defaults.ignore_underscore)
           third == multi_option_policy(
             [second.cli.options[o] EXCEPT
                !.configurable = defaults.configurable, !.delimiter = defaults.delimiter,
                !.disable_flag_override = defaults.disable_flag_override], defaults.policy)
           last == Set(second.cli, o, third)
<1>1. /\ first.thrown = "none" /\ second.thrown = "none"
      /\ copy_to(d, defaults, o).cli = last
  BY DEF copy_to, Chain, Returns
<1>2. OnlyOption(b, d, o) /\ NoMoreClashes(b, d)
  BY SetRequiredNoMore
<1> HIDE DEF b
<1>3. OnlyOption(first.cli, b, o) /\ NoMoreClashes(first.cli, b)
  <2>1. WellFormed(b) /\ o \in DOMAIN b.options /\ "ignore_case" \in Ignorable
    BY <1>2 DEF OnlyOption, Ignorable
  <2> QED
    BY <1>1, <2>1, OptionIgnoresKeeps, OptionIgnoresNoMore, Zenon
<1> HIDE DEF first
<1>4. OnlyOption(second.cli, first.cli, o) /\ NoMoreClashes(second.cli, first.cli)
  <2>1. WellFormed(first.cli) /\ o \in DOMAIN first.cli.options /\ "ignore_underscore" \in Ignorable
    BY <1>2, <1>3 DEF OnlyOption, Ignorable
  <2> QED
    BY <1>1, <2>1, OptionIgnoresKeeps, OptionIgnoresNoMore, Zenon
<1> HIDE DEF second
<1>5. NoMoreClashes(last, second.cli)
  <2> DEFINE old == second.cli.options[o]
             changed == [old EXCEPT
               !.configurable = defaults.configurable, !.delimiter = defaults.delimiter,
               !.disable_flag_override = defaults.disable_flag_override]
  <2>1. WellFormed(second.cli) /\ o \in DOMAIN second.cli.options
    BY <1>2, <1>3, <1>4 DEF OnlyOption
  <2>2. NameFields \subseteq DOMAIN old
    BY <2>1, OptionsAre, NameFieldsAre DEF WellFormed, IsOption
  <2>3. SameNamed(third, old)
    <3> HIDE DEF old
    <3>1. SameNamed(changed, old) /\ NameFields \subseteq DOMAIN changed
      BY <2>2 DEF SameNamed, NameFields
    <3>2. third = multi_option_policy(changed, defaults.policy)
      BY DEF old
    <3> HIDE DEF changed, third
    <3>3. SameNamed(third, changed)
      BY <3>1, <3>2, PolicyNames
    <3> QED
      BY <3>1, <3>3 DEF SameNamed
  <2> HIDE DEF third
  <2> QED
    BY <2>1, <2>3, SameNamedNoMore
<1> HIDE DEF last
<1> QED
  BY <1>1, <1>2, <1>3, <1>4, <1>5, NoMoreThroughout

(***************************************************************************)
(* A new option is unknown in its app when it comes to it.                 *)
(***************************************************************************)
LEMMA AddedNoMore ==
  ASSUME Commute, NEW d, WellFormed(d), NEW a \in DOMAIN d.apps, NEW opt,
         NEW o \in OptionIds, o \notin DOMAIN d.options, IsOption(opt, DOMAIN d.options),
         ~AlreadyIn(d, a, opt, {})
  PROVE  NoMoreClashes(Added(d, a, opt, o), d)
<1> DEFINE e == Added(d, a, opt, o)
           own == d.apps[a].options
<1>1. IsAdded(e, d, a, opt, o)
  BY AddedFacts DEF WellFormed
<1> HIDE DEF e
<1>2. Range(Append(own, o)) = Range(own) \cup {o}
  <2>1. own \in Seq(DOMAIN d.options \cup {o}) /\ IsInjective(own)
    <3>1. own \in Seq(DOMAIN d.options) /\ IsInjective(own)
      BY DEF WellFormed, Shaped, Placed
    <3> HIDE DEF own
    <3> QED
      BY <3>1
  <2>2. o \notin Range(own)
    BY OwnOptionsAre DEF WellFormed, OwnOptions
  <2> HIDE DEF own
  <2> QED
    BY <2>1, <2>2, Appended
<1>3. \A b \in DOMAIN d.apps :
        OwnOptions(e, b) = IF b = a THEN OwnOptions(d, b) \cup {o} ELSE OwnOptions(d, b)
  BY <1>1, <1>2 DEF IsAdded, OwnOptions
<1>4. \A b \in DOMAIN d.apps : OwnOptions(d, b) \subseteq DOMAIN d.options
  BY OwnOptionsAre DEF WellFormed
<1>5. ASSUME NEW b \in DOMAIN e.apps, NEW p \in OwnOptions(e, b) \ {o}
      PROVE  Stays(e, d, b, p)
  <2>1. b \in DOMAIN d.apps /\ p \in OwnOptions(d, b) /\ p \in DOMAIN d.options
    BY <1>1, <1>3, <1>4 DEF IsAdded
  <2> QED
    BY <1>1, <2>1 DEF Stays, SameNames, IgnoresLess, IsAdded
<1>6. ASSUME NEW b \in DOMAIN e.apps, e.home[o] = b
      PROVE  Unknown(e, b, o)
  <2> SUFFICES ASSUME NEW p \in OwnOptions(e, b) \ {o}
               PROVE  ~Knows(e.options[o], e.options[p]) /\ ~Knows(e.options[p], e.options[o])
    BY DEF Unknown
  <2>1. b = a /\ p \in OwnOptions(d, a) /\ p \in DOMAIN d.options
    BY <1>1, <1>3, <1>4, <1>6 DEF IsAdded
  <2>2. e.options[p] = d.options[p] /\ e.options[o] = opt
    BY <1>1, <2>1 DEF IsAdded
  <2> QED
    BY <2>1, <2>2, NoMatchIsNoClash DEF AlreadyIn
<1>7. NoMoreClashes(e, d)
  BY <1>5, <1>6, OneAside
<1> QED
  BY <1>7 DEF e

(***************************************************************************)
(* App::add_option: the names are checked before, and the defaults         *)
(* afterwards.                                                             *)
(***************************************************************************)
LEMMA AddOptionNoMore ==
  ASSUME Commute, NEW d, WellFormed(d), Room(d, 1), NEW a \in DOMAIN d.apps, NEW names,
         add_option(d, a, names).thrown = "none"
  PROVE  NoMoreClashes(add_option(d, a, names).cli, d)
<1> DEFINE o == Unused(OptionIds, d.options)
           opt == get_names(names)
           b == Added(d, a, opt, o)
           defaults == d.apps[a].defaults
           done == copy_to(b, defaults, o)
<1>1. add_option(d, a, names) = done /\ ~AlreadyIn(d, a, opt, {})
  BY DEF add_option, Throws
<1>2. o \in OptionIds \ DOMAIN d.options
  BY NewOption DEF WellFormed
<1> HIDE DEF o
<1>3. IsOption(opt, DOMAIN d.options)
  BY NamesAreOption
<1> HIDE DEF opt, defaults
<1>4. WellFormed(b) /\ NoMoreClashes(b, d)
  BY <1>1, <1>2, <1>3, AddedWellFormed, AddedNoMore
<1>5. o \in DOMAIN b.options
  BY <1>2 DEF Added, Extend
<1> HIDE DEF b
<1>6. NoMoreClashes(done.cli, b)
  BY <1>1, <1>4, <1>5, CopyToNoMore
<1> HIDE DEF done
<1> QED
  BY <1>1, <1>4, <1>6, NoMoreThroughout

(***************************************************************************)
(* App::remove_option: the options beside it lose links, not names.        *)
(***************************************************************************)
LEMMA RemoveOptionNoMore ==
  ASSUME Commute, NEW d, WellFormed(d), NEW a \in DOMAIN d.apps, NEW x
  PROVE  NoMoreClashes(remove_option(d, a, x), d)
<1> DEFINE e == remove_option(d, a, x)
<1>1. IsRemoved(e, d, a, x)
  BY RemovedFacts DEF WellFormed
<1>2. \A b \in DOMAIN d.apps : OwnOptions(e, b) \subseteq OwnOptions(d, b)
  BY RemoveOptionWellFormed
<1> HIDE DEF e
<1>3. ASSUME NEW b \in DOMAIN e.apps, NEW p \in OwnOptions(e, b)
      PROVE  Stays(e, d, b, p)
  <2> DEFINE old == d.options[p]
  <2>1. b \in DOMAIN d.apps /\ p \in OwnOptions(d, b) /\ p \in DOMAIN d.options
    BY <1>1, <1>2, OwnOptionsAre DEF IsRemoved, WellFormed
  <2>2. NameFields \subseteq DOMAIN old
    BY <2>1, OptionsAre, NameFieldsAre DEF WellFormed, IsOption
  <2>3. e.options[p] = old \/ e.options[p] = Unlinked(old, x)
    BY <1>1, <2>1 DEF IsRemoved
  <2> HIDE DEF old
  <2>4. SameNamed(e.options[p], old)
    BY <2>2, <2>3 DEF SameNamed, NameFields, Unlinked
  <2> QED
    BY <1>1, <2>1, <2>4, SameNamedStays DEF old, IsRemoved
<1>4. NoMoreClashes(e, d)
  BY <1>3, AllStay
<1> QED
  BY <1>4 DEF e

(***************************************************************************)
(* No size of an option has to do with its names.                          *)
(***************************************************************************)
LEMMA SizesNames ==
  ASSUME NEW opt, NameFields \subseteq DOMAIN opt, NEW m, NEW n
  PROVE  /\ SameNamed(type_size(opt, n), opt)
         /\ SameNamed(type_sizes(opt, m, n), opt)
         /\ SameNamed(expected(opt, n), opt)
         /\ SameNamed(expected_range(opt, m, n), opt)
         /\ DOMAIN type_sizes(opt, m, n) = DOMAIN opt
         /\ DOMAIN expected_range(opt, m, n) = DOMAIN opt
<1>1. SameNamed(type_size(opt, n), opt)
  BY DEF type_size, SameNamed, NameFields
<1>2. SameNamed(type_sizes(opt, m, n), opt) /\ DOMAIN type_sizes(opt, m, n) = DOMAIN opt
  BY DEF type_sizes, SameNamed, NameFields
<1>3. SameNamed(expected(opt, n), opt)
  BY DEF expected, SameNamed, NameFields
<1>4. SameNamed(expected_range(opt, m, n), opt) /\ DOMAIN expected_range(opt, m, n) = DOMAIN opt
  BY DEF expected_range, SameNamed, NameFields
<1> QED
  BY <1>1, <1>2, <1>3, <1>4

(***************************************************************************)
(* A change of apps is quiet if each has no options but those it had.      *)
(***************************************************************************)
LEMMA FewerOptionsNoMore ==
  ASSUME Commute, NEW d, WellFormed(d), NEW e, e.options = d.options, e.home = d.home,
         \A a \in DOMAIN e.apps : OwnOptions(e, a) # {} =>
           a \in DOMAIN d.apps /\ OwnOptions(e, a) \subseteq OwnOptions(d, a)
  PROVE  NoMoreClashes(e, d)
<1>1. ASSUME NEW a \in DOMAIN e.apps, NEW o \in OwnOptions(e, a)
      PROVE  Stays(e, d, a, o)
  BY DEF Stays, SameNames, IgnoresLess
<1> QED
  BY <1>1, AllStay

(***************************************************************************)
(* App::add_flag: an option is made a flag without a change of its names.  *)
(***************************************************************************)
LEMMA AddFlagNoMore ==
  ASSUME Commute, NEW d, WellFormed(d), Room(d, 1), NEW a \in DOMAIN d.apps, NEW names,
         add_flag(d, a, names).thrown = "none"
  PROVE  NoMoreClashes(add_flag(d, a, names).cli, d)
<1> DEFINE out == add_flag(d, a, names)
           o == Unused(OptionIds, d.options)
           plain == [i \in DOMAIN names |-> remove_default_flag_values(names[i])]
           with == SelectSeq(names, has_default_flag_values)
           first == add_option(d, a, plain)
           e == first.cli
           last == Newest(e, a)
           opt == e.options[last]
           flag == [Flag(opt) EXCEPT
                      !.fnames = [i \in DOMAIN with |-> FlagName(with[i])],
                      !.flag_values = [i \in DOMAIN with |-> OwnValue(with[i])]]
<1>1. first.thrown = "none" /\ out.cli = Set(e, last, flag)
  BY DEF add_flag, Chain, Throws, Returns
<1> HIDE DEF plain
<1>2. AddsOption(e, d, a, o)
  BY <1>1, AddOptionAdds, Zenon
<1>3. NoMoreClashes(e, d)
  BY <1>1, AddOptionNoMore
<1> HIDE DEF o, first
<1>4. WellFormed(e) /\ last \in DOMAIN e.options
  BY <1>2 DEF AddsOption
<1> HIDE DEF last
<1>5. NameFields \subseteq DOMAIN opt
  BY <1>4, OptionsAre, NameFieldsAre DEF WellFormed, IsOption
<1> HIDE DEF opt, with
<1>6. SameNamed(flag, opt)
  BY <1>5 DEF SameNamed, NameFields, Flag
<1> HIDE DEF flag, out, e
<1>7. NoMoreClashes(Set(e, last, flag), e)
  BY <1>4, <1>6, SameNamedNoMore DEF opt
<1> QED
  BY <1>1, <1>3, <1>7, NoMoreThroughout DEF out

(***************************************************************************)
(* It does not matter to which options an app points.                      *)
(***************************************************************************)
LEMMA PointersNoMore ==
  ASSUME Commute, NEW d, WellFormed(d), NEW a, NEW e, SameButPointers(e, d, a)
  PROVE  NoMoreClashes(e, d)
BY FewerOptionsNoMore DEF SameButPointers, OwnOptions

(***************************************************************************)
(* The help flag that was before goes.                                     *)
(***************************************************************************)
LEMMA WithoutNoMore ==
  ASSUME Commute, NEW d, WellFormed(d), NEW a \in DOMAIN d.apps, NEW kind \in Kinds
  PROVE  NoMoreClashes(Without(d, a, kind), d)
<1> DEFINE x == d.apps[a][kind]
           w == remove_option(d, a, x)
           e == [w EXCEPT !.apps[a][kind] = NoOption]
<1>1. Without(d, a, kind) = d \/ Without(d, a, kind) = e
  BY DEF Without
<1> HIDE DEF x
<1>2. Removes(w, d, a, x) /\ NoMoreClashes(w, d)
  BY RemoveOptionRemoves, RemoveOptionNoMore
<1> HIDE DEF w
<1>3. SameButPointers(e, w, a)
  BY <1>2, PointWellFormed DEF Removes
<1> HIDE DEF e
<1>4. NoMoreClashes(e, w)
  BY <1>2, <1>3, PointersNoMore DEF Removes
<1>5. NoMoreClashes(e, d)
  BY <1>2, <1>4, NoMoreThroughout
<1>6. NoMoreClashes(d, d)
  BY DEF NoMoreClashes
<1> QED
  BY <1>1, <1>5, <1>6

(***************************************************************************)
(* The new option becomes what it was made for.                            *)
(***************************************************************************)
LEMMA AsNoMore ==
  ASSUME Commute, NEW d, WellFormed(d), NEW a \in DOMAIN d.apps, NEW kind \in Kinds,
         NEW o, NEW e, AddsOption(e, d, a, o)
  PROVE  NoMoreClashes(As(e, a, kind, o).cli, e)
<1> DEFINE f == [e EXCEPT !.apps[a][kind] = o]
           old == e.options[o]
           new == [old EXCEPT !.configurable = FALSE,
                     !.throws = IF kind = "version" THEN "CallForVersion" ELSE @]
           g == Set(f, o, new)
<1>1. As(e, a, kind, o).cli = g
  <2>1. old = f.options[o]
    <3>1. DOMAIN e = {"apps", "options", "home"}
      BY DEF AddsOption, WellFormed, Shaped
    <3> QED
      BY <3>1
  <2> QED
    BY DEF As, Returns, Set
<1>2. WellFormed(e) /\ a \in DOMAIN e.apps /\ o \in OwnOptions(e, a) /\ o \in DOMAIN e.options
  BY DEF AddsOption
<1>3. SameButPointers(f, e, a)
  <2>1. o \notin {e.apps[a].help, e.apps[a].help_all}
    <3>1. {d.apps[a].help, d.apps[a].help_all} \subseteq DOMAIN d.options \cup {NoOption}
      BY OwnOptionsAre DEF WellFormed, HelpOwned
    <3>2. e.apps[a].help = d.apps[a].help /\ e.apps[a].help_all = d.apps[a].help_all
      BY AddsKeeps
    <3> QED
      BY <3>1, <3>2, IdsAssumption DEF AddsOption
  <2> QED
    BY <1>2, <2>1, PointWellFormed
<1> HIDE DEF f
<1>4. NoMoreClashes(f, e)
  BY <1>2, <1>3, PointersNoMore
<1>5. NoMoreClashes(g, f)
  <2>1. WellFormed(f) /\ o \in DOMAIN f.options /\ f.options[o] = old
    BY <1>2, <1>3 DEF SameButPointers
  <2>2. NameFields \subseteq DOMAIN old
    BY <1>2, OptionsAre, NameFieldsAre DEF WellFormed, IsOption
  <2> HIDE DEF old
  <2>3. SameNamed(new, old)
    BY <2>2 DEF SameNamed, NameFields
  <2> HIDE DEF new
  <2> QED
    BY <2>1, <2>3, SameNamedNoMore
<1> HIDE DEF g
<1> QED
  BY <1>1, <1>4, <1>5, NoMoreThroughout

(***************************************************************************)
(* set_help_flag, set_help_all_flag and set_version_flag.                  *)
(***************************************************************************)
LEMMA SetFlagNoMore ==
  ASSUME Commute, NEW d, WellFormed(d), Room(d, 1), NEW a \in DOMAIN d.apps, NEW kind \in Kinds,
         NEW names, set_flag(d, a, kind, names).thrown = "none"
  PROVE  NoMoreClashes(set_flag(d, a, kind, names).cli, d)
<1> DEFINE w == Without(d, a, kind)
           first == add_flag(w, a, names)
           e == first.cli
           o == Unused(OptionIds, w.options)
           out == set_flag(d, a, kind, names)
<1>1. \/ out.cli = w
      \/ first.thrown = "none" /\ out = As(e, a, kind, Newest(e, a))
  BY DEF set_flag, Returns, Chain
<1>2. PICK x : Removes(w, d, a, x)
  BY WithoutRemoves
<1>3. NoMoreClashes(w, d)
  BY WithoutNoMore
<1> HIDE DEF w, out
<1>4. WellFormed(w) /\ Room(w, 1) /\ a \in DOMAIN w.apps
  BY <1>2, SameReplaces
<1>5. FlagOutcome(first, w, a, o)
  BY <1>4, AddFlagAdds
<1>6. first.thrown = "none" => NoMoreClashes(e, w)
  BY <1>4, AddFlagNoMore
<1> HIDE DEF first, o
<1>7. ASSUME first.thrown = "none"
      PROVE  NoMoreClashes(As(e, a, kind, Newest(e, a)).cli, e)
  <2>1. AddsOption(e, w, a, o) /\ Newest(e, a) = o
    BY <1>5, <1>7 DEF FlagOutcome, AddsOption
  <2> HIDE DEF e
  <2> QED
    BY <1>4, <2>1, AsNoMore
<1> HIDE DEF e
<1>8. NoMoreClashes(out.cli, d)
  BY <1>1, <1>3, <1>6, <1>7, NoMoreThroughout
<1> QED
  BY <1>8 DEF out

(***************************************************************************)
(* App::set_config.                                                        *)
(***************************************************************************)
LEMMA SetConfigNoMore ==
  ASSUME Commute, NEW d, WellFormed(d), Room(d, 1), NEW a \in DOMAIN d.apps,
         NEW names, set_config(d, a, names).thrown = "none"
  PROVE  NoMoreClashes(set_config(d, a, names).cli, d)
<1> DEFINE w == Without(d, a, "config")
           first == add_option(w, a, names)
           e == first.cli
           o == Unused(OptionIds, w.options)
           out == set_config(d, a, names)
<1>1. \/ out.cli = w
      \/ first.thrown = "none" /\ out = As(e, a, "config", Newest(e, a))
  BY DEF set_config, Returns, Chain
<1>2. "config" \in Kinds
  BY DEF Kinds
<1>3. PICK x : Removes(w, d, a, x)
  BY <1>2, WithoutRemoves
<1>4. NoMoreClashes(w, d)
  BY <1>2, WithoutNoMore
<1> HIDE DEF w, out
<1>5. WellFormed(w) /\ Room(w, 1) /\ a \in DOMAIN w.apps
  BY <1>3, SameReplaces
<1>6. (e = w /\ first.thrown # "none") \/ AddsOption(e, w, a, o)
  BY <1>5, AddOptionAdds, Zenon
<1>7. first.thrown = "none" => NoMoreClashes(e, w)
  BY <1>5, AddOptionNoMore
<1> HIDE DEF first, o
<1>8. ASSUME first.thrown = "none"
      PROVE  NoMoreClashes(As(e, a, "config", Newest(e, a)).cli, e)
  <2>1. AddsOption(e, w, a, o) /\ Newest(e, a) = o
    BY <1>6, <1>8 DEF AddsOption
  <2> HIDE DEF e
  <2> QED
    BY <1>2, <1>5, <2>1, AsNoMore
<1> HIDE DEF e
<1>9. NoMoreClashes(out.cli, d)
  BY <1>1, <1>4, <1>7, <1>8, NoMoreThroughout
<1> QED
  BY <1>9 DEF out

(***************************************************************************)
(* retire_option: the option in the place of the old one is added as any   *)
(* other is.                                                               *)
(***************************************************************************)
LEMMA RetireOptionNoMore ==
  ASSUME Commute, NEW d, WellFormed(d), Room(d, 1), NEW a \in DOMAIN d.apps,
         NEW x \in DOMAIN d.options, retire_option(d, a, x).thrown = "none"
  PROVE  NoMoreClashes(retire_option(d, a, x).cli, d)
<1> DEFINE old == d.options[x]
           names == get_name(old)
           w == remove_option(d, a, x)
           first == add_option(w, a, names)
           e == first.cli
           o == Unused(OptionIds, w.options)
           Ignored == [index |-> 0, rejects |-> {}, becomes |-> <<>>]
           ranged(opt) == expected_range(type_sizes(opt, old.type_min, old.type_max),
                                         old.exp_min, old.exp_max)
           Retired(opt) ==
             [ranged(opt) EXCEPT
                !.allow_extra_args = old.allow_extra_args, !.default_str = <<"RETIRED">>,
                !.validators = Append(@, Ignored)]
           last == Set(e, Newest(e, a), Retired(e.options[Newest(e, a)]))
<1>1. first.thrown = "none" /\ retire_option(d, a, x).cli = last
  BY DEF retire_option, Returns, Throws, Chain
<1>2. Removes(w, d, a, x) /\ NoMoreClashes(w, d)
  BY RemoveOptionRemoves, RemoveOptionNoMore
<1> HIDE DEF w, names, old
<1>3. WellFormed(w) /\ Room(w, 1) /\ a \in DOMAIN w.apps
  BY <1>2, SameReplaces
<1>4. AddsOption(e, w, a, o)
  BY <1>1, <1>3, AddOptionAdds, Zenon
<1>5. NoMoreClashes(e, w)
  BY <1>1, <1>3, AddOptionNoMore
<1> HIDE DEF first, o
<1>6. NoMoreClashes(last, e)
  <2>1. Newest(e, a) = o /\ WellFormed(e) /\ o \in DOMAIN e.options
    BY <1>4 DEF AddsOption
  <2> DEFINE opt == e.options[o]
             new == Retired(opt)
  <2>2. last = Set(e, o, new)
    BY <2>1
  <2> HIDE DEF e, last
  <2>3. NameFields \subseteq DOMAIN opt
    BY <2>1, OptionsAre, NameFieldsAre DEF WellFormed, IsOption
  <2> HIDE DEF opt
  <2>4. SameNamed(ranged(opt), opt) /\ DOMAIN ranged(opt) = DOMAIN opt
    <3> DEFINE sized == type_sizes(opt, old.type_min, old.type_max)
    <3>1. SameNamed(sized, opt) /\ DOMAIN sized = DOMAIN opt
      BY <2>3, SizesNames
    <3> HIDE DEF sized
    <3> DEFINE r == expected_range(sized, old.exp_min, old.exp_max)
    <3>2. SameNamed(r, sized) /\ DOMAIN r = DOMAIN sized
      BY <2>3, <3>1, SizesNames
    <3>3. ranged(opt) = r
      BY DEF sized
    <3> HIDE DEF r, ranged
    <3> QED
      BY <3>1, <3>2, <3>3 DEF SameNamed
  <2> HIDE DEF ranged
  <2>5. SameNamed(new, opt)
    <3> DEFINE r == ranged(opt)
               n == [r EXCEPT
                       !.allow_extra_args = old.allow_extra_args, !.default_str = <<"RETIRED">>,
                       !.validators = Append(@, Ignored)]
    <3>1. new = n
      OBVIOUS
    <3>2. SameNamed(r, opt) /\ NameFields \subseteq DOMAIN r
      BY <2>3, <2>4
    <3> HIDE DEF r
    <3>3. SameNamed(n, r)
      BY <3>2 DEF SameNamed, NameFields
    <3> HIDE DEF n, new
    <3> QED
      BY <3>1, <3>2, <3>3 DEF SameNamed
  <2> HIDE DEF new
  <2> QED
    BY <2>1, <2>2, <2>5, SameNamedNoMore DEF opt
<1> HIDE DEF e, last
<1> QED
  BY <1>1, <1>2, <1>5, <1>6, NoMoreThroughout

(***************************************************************************)
(* Option_group::add_option: the option that is moved is unknown in the    *)
(* group. It remembers the app in which it was made, though, and is        *)
(* checked there no more.                                                  *)
(***************************************************************************)
LEMMA MoveOptionNoMore ==
  ASSUME Commute, NEW d, WellFormed(d), NEW g \in Apps(d), g # Root, NEW o,
         move_option(d, g, o).thrown = "none"
  PROVE  NoMoreClashes(move_option(d, g, o).cli, d)
<1> DEFINE a == d.apps[g].parent
           e == move_option(d, g, o).cli
<1>1. /\ a \in Apps(d) /\ g \in Apps(d) /\ a # g /\ o \in OwnOptions(d, a)
      /\ ~AlreadyIn(d, g, d.options[o], {}) /\ IsMoved(e, d, a, g, o)
  BY MoveOptionIs
<1> HIDE DEF a, e
<1>2. ASSUME NEW c \in DOMAIN e.apps, NEW p \in OwnOptions(e, c), p # o \/ c # g
      PROVE  Stays(e, d, c, p)
  <2>1. c \in DOMAIN d.apps /\ p \in OwnOptions(d, c)
    BY <1>1, <1>2 DEF IsMoved
  <2> QED
    BY <1>1, <2>1 DEF Stays, SameNames, IgnoresLess, IsMoved
<1>3. Unknown(e, g, o)
  <2> SUFFICES ASSUME NEW p \in OwnOptions(e, g) \ {o}
               PROVE  ~Knows(e.options[o], e.options[p]) /\ ~Knows(e.options[p], e.options[o])
    BY DEF Unknown
  <2>1. p \in OwnOptions(d, g) /\ e.options = d.options
    BY <1>1, AppsAre DEF IsMoved
  <2>2. ~matching_name(d.options[p], d.options[o])
    BY <1>1, <2>1 DEF AlreadyIn
  <2> QED
    BY <2>1, <2>2, NoMatchIsNoClash
<1>4. NoMoreClashes(e, d)
  BY <1>2, <1>3, OneAside
<1> QED
  BY <1>4 DEF e

(***************************************************************************)
(* Calls by which nothing goes to another place make no clash,             *)
(***************************************************************************)
LEMMA SamePlacesNoMore ==
  ASSUME Commute, NEW d, WellFormed(d), NEW e, SamePlaces(e, d)
  PROVE  NoMoreClashes(e, d)
BY FewerOptionsNoMore DEF SamePlaces

(***************************************************************************)
(* such as a change of one app.                                            *)
(***************************************************************************)
LEMMA SetAppNoMore ==
  ASSUME Commute, NEW d, WellFormed(d), NEW a \in DOMAIN d.apps, NEW app, SameTies(app, d.apps[a])
  PROVE  NoMoreClashes([d EXCEPT !.apps[a] = app], d)
BY SetAppKeeps, SamePlacesNoMore

(***************************************************************************)
(* Nor does it if an app goes below another one.                           *)
(***************************************************************************)
LEMMA AttachNoMore ==
  ASSUME Commute, NEW d, WellFormed(d), NEW a \in DOMAIN d.apps, NEW sub \in DOMAIN d.apps,
         Loose(d, sub), sub # Root, a \notin Below(d, sub)
  PROVE  NoMoreClashes(attach(d, a, sub).cli, d)
<1> DEFINE e == attach(d, a, sub).cli
<1>1. /\ DOMAIN e.apps = DOMAIN d.apps /\ e.options = d.options /\ e.home = d.home
      /\ \A c \in DOMAIN d.apps : OwnOptions(e, c) = OwnOptions(d, c)
  BY AttachKeeps
<1> HIDE DEF e
<1>2. NoMoreClashes(e, d)
  BY <1>1, FewerOptionsNoMore
<1> QED
  BY <1>2 DEF e

(***************************************************************************)
(* A new app has no options,                                               *)
(***************************************************************************)
LEMMA BareNoMore ==
  ASSUME Commute, NEW d, WellFormed(d), NEW sub \in AppIds, sub \notin DOMAIN d.apps, NEW n, NEW p
  PROVE  NoMoreClashes(
           [d EXCEPT !.apps = Extend(@, sub, [DefaultApp EXCEPT !.name = n, !.parent = p])], d)
<1> DEFINE e == [d EXCEPT !.apps = Extend(@, sub, [DefaultApp EXCEPT !.name = n, !.parent = p])]
<1>1. IsBorn(e, d, sub, 0)
  BY BareIsBorn
<1>2. e.options = d.options /\ e.home = d.home
  BY DEF WellFormed, Shaped
<1> HIDE DEF e
<1>3. OwnOptions(e, sub) = {}
  BY <1>1, <1>2, OwnOptionsAre DEF IsBorn, WellFormed
<1>4. \A b \in DOMAIN e.apps : OwnOptions(e, b) # {} =>
        b \in DOMAIN d.apps /\ OwnOptions(e, b) \subseteq OwnOptions(d, b)
  BY <1>1, <1>3 DEF IsBorn, OwnOptions
<1>5. NoMoreClashes(e, d)
  BY <1>2, <1>4, FewerOptionsNoMore
<1> QED
  BY <1>5 DEF e

(***************************************************************************)
(* then a help flag,                                                       *)
(***************************************************************************)
LEMMA FlaggedNoMore ==
  ASSUME Commute, NEW d, WellFormed(d), NEW sub, NEW n \in Nat, NEW e, IsBorn(e, d, sub, n),
         Room(d, n + 1), NEW kind \in Kinds, NEW names,
         set_flag(e, sub, kind, names).thrown = "none"
  PROVE  NoMoreClashes(set_flag(e, sub, kind, names).cli, e)
<1>1. WellFormed(e) /\ sub \in DOMAIN e.apps
  BY DEF IsBorn
<1>2. /\ Cardinality(DOMAIN d.options) \in Nat /\ Cardinality(DOMAIN e.options) \in Nat
      /\ Cardinality(OptionIds) \in Nat
  BY <1>1, Counted, IdsAssumption, FS_CardinalityType
<1>3. Room(e, 1)
  BY <1>2 DEF Room, IsBorn
<1> QED
  BY <1>1, <1>3, SetFlagNoMore

(***************************************************************************)
(* and at last the ways of its parent (App::App).                          *)
(***************************************************************************)
LEMMA NewAppNoMore ==
  ASSUME Commute, NEW d, WellFormed(d), NEW sub \in AppIds, sub \notin DOMAIN d.apps, Room(d, 2),
         NEW n, NEW parent, NewApp(d, sub, n, parent).thrown = "none"
  PROVE  NoMoreClashes(NewApp(d, sub, n, parent).cli, d)
<1> DEFINE p == d.apps[parent]
           bare == [DefaultApp EXCEPT !.name = n, !.parent = parent]
           e == [d EXCEPT !.apps = Extend(@, sub, bare)]
           flagged(f, kind) == IF p[kind] = NoOption THEN Returns(f)
                               ELSE set_flag(f, sub, kind, get_name(d.options[p[kind]]))
           first == flagged(e, "help")
           second == flagged(first.cli, "help_all")
           last == [second.cli EXCEPT !.apps[sub] = Inherits(second.cli.apps[sub], p)]
<1>1. /\ first.thrown = "none" /\ second.thrown = "none"
      /\ NewApp(d, sub, n, parent).cli = last
  BY DEF NewApp, Chain, Returns
<1>2. Room(d, 1) /\ Room(d, 2)
  <2>1. Cardinality(DOMAIN d.options) \in Nat /\ Cardinality(OptionIds) \in Nat
    BY Counted, IdsAssumption, FS_CardinalityType
  <2> QED
    BY <2>1 DEF Room
<1>3. IsBorn(e, d, sub, 0) /\ NoMoreClashes(e, d)
  BY BareIsBorn, BareNoMore
<1> HIDE DEF e, bare
<1>4. \A f : NoMoreClashes(f, f)
  BY DEF NoMoreClashes
<1>5. "help" \in Kinds /\ "help_all" \in Kinds
  BY DEF Kinds
<1>6. IsBorn(first.cli, d, sub, 1) /\ NoMoreClashes(first.cli, e)
  <2> DEFINE out == set_flag(e, sub, "help", get_name(d.options[p.help]))
  <2>1. /\ IsBorn(out.cli, d, sub, 0 + 1)
        /\ out.thrown = "none" => NoMoreClashes(out.cli, e)
    BY <1>2, <1>3, <1>5, FlaggedIsBorn, FlaggedNoMore
  <2>2. IsBorn(e, d, sub, 1)
    BY <1>3, MoreIsBorn
  <2>3. first = Returns(e) \/ first = out
    OBVIOUS
  <2>4. IsBorn(out.cli, d, sub, 1)
    BY <2>1
  <2>5. first.thrown = "none"
    BY <1>1
  <2> HIDE DEF first, out
  <2> QED
    BY <1>4, <2>1, <2>2, <2>3, <2>4, <2>5 DEF Returns
<1> HIDE DEF first
<1>7. IsBorn(second.cli, d, sub, 2) /\ NoMoreClashes(second.cli, first.cli)
  <2> DEFINE out == set_flag(first.cli, sub, "help_all", get_name(d.options[p.help_all]))
  <2>1. /\ IsBorn(out.cli, d, sub, 1 + 1)
        /\ out.thrown = "none" => NoMoreClashes(out.cli, first.cli)
    BY <1>2, <1>5, <1>6, FlaggedIsBorn, FlaggedNoMore
  <2>2. IsBorn(first.cli, d, sub, 2)
    BY <1>6, MoreIsBorn
  <2>3. second = Returns(first.cli) \/ second = out
    OBVIOUS
  <2>4. IsBorn(out.cli, d, sub, 2)
    BY <2>1
  <2>5. second.thrown = "none"
    BY <1>1
  <2> HIDE DEF second, out
  <2> QED
    BY <1>4, <2>1, <2>2, <2>3, <2>4, <2>5 DEF Returns
<1> DEFINE f == second.cli
<1> HIDE DEF second
<1>8. NoMoreClashes(last, f)
  <2> DEFINE app == Inherits(f.apps[sub], p)
  <2>1. WellFormed(f) /\ sub \in DOMAIN f.apps
    BY <1>7 DEF IsBorn
  <2>2. SameTies(app, f.apps[sub])
    BY <2>1, InheritsKeepsTies DEF WellFormed, Shaped
  <2>3. last = [f EXCEPT !.apps[sub] = app]
    OBVIOUS
  <2> HIDE DEF app
  <2> QED
    BY <2>1, <2>2, <2>3, SetAppNoMore
<1> HIDE DEF last
<1> QED
  BY <1>1, <1>3, <1>6, <1>7, <1>8, NoMoreThroughout

-----------------------------------------------------------------------------
(***************************************************************************)
(* The apps of the program are those that were, or new: an app that was    *)
(* removed does not come back.                                             *)
(***************************************************************************)
NoMoreApps(e, d) == Apps(e) \cap DOMAIN d.apps \subseteq Apps(d)

(***************************************************************************)
(* That is so if no app of the program and no new one gets a removed one   *)
(* below it.                                                               *)
(***************************************************************************)
LEMMA AppsStay ==
  ASSUME NEW d, WellFormed(d), NEW e, WellFormed(e),
         \A b \in DOMAIN e.apps :
           (b \in DOMAIN d.apps => b \in Apps(d)) => Subs(e, b) \cap DOMAIN d.apps \subseteq Apps(d)
  PROVE  NoMoreApps(e, d)
<1> DEFINE S == {b \in DOMAIN e.apps : b \in DOMAIN d.apps => b \in Apps(d)}
<1>1. S \in SUBSET DOMAIN e.apps
  OBVIOUS
<1>2. Closed(e, S)
  <2> SUFFICES ASSUME NEW b \in S, NEW sub \in Subs(e, b)
               PROVE  sub \in S
    BY DEF Closed
  <2>1. sub \in DOMAIN e.apps
    BY SubsAreApps DEF WellFormed
  <2> QED
    BY <2>1
<1>3. Root \in S /\ Root \in DOMAIN e.apps
  BY AppsAre DEF WellFormed, Shaped
<1> HIDE DEF S
<1>4. Apps(e) \subseteq S
  BY <1>1, <1>2, <1>3, BelowFacts DEF Apps, WellFormed
<1> QED
  BY <1>4 DEF S, NoMoreApps

(***************************************************************************)
(* Nor does one come back if no app gets any other below it.               *)
(***************************************************************************)
LEMMA FewerSubsNoMoreApps ==
  ASSUME NEW d, WellFormed(d), NEW e, WellFormed(e), DOMAIN e.apps = DOMAIN d.apps,
         \A b \in DOMAIN d.apps : Subs(e, b) \subseteq Subs(d, b)
  PROVE  NoMoreApps(e, d)
<1>1. Closed(d, Apps(d)) /\ Apps(d) \subseteq DOMAIN d.apps
  BY AppsAre
<1> QED
  BY <1>1, AppsStay DEF Closed

(***************************************************************************)
(* Whatever becomes of options, apps stay.                                 *)
(***************************************************************************)
LEMMA ReplacesNoMoreApps ==
  ASSUME NEW d, WellFormed(d), NEW a, NEW e, Replaces(e, d, a)
  PROVE  NoMoreApps(e, d)
<1>1. PICK x, w, o : Removes(w, d, a, x) /\ KeepsOptions(e, w, a, o)
  BY DEF Replaces
<1> QED
  BY <1>1, FewerSubsNoMoreApps DEF Removes, KeepsOptions, Subs

(***************************************************************************)
(* App::add_subcommand and add_option_group.                               *)
(***************************************************************************)
LEMMA AddSubcommandQuiet ==
  ASSUME Commute, NEW d, WellFormed(d), EnoughIds(d, 1), NEW a \in Apps(d), NEW n,
         add_subcommand(d, a, n).thrown = "none"
  PROVE  /\ NoMoreClashes(add_subcommand(d, a, n).cli, d)
         /\ NoMoreApps(add_subcommand(d, a, n).cli, d)
<1> DEFINE sub == Unused(AppIds, d.apps)
           out == NewApp(d, sub, n, a)
           e == out.cli
           f == attach(e, a, sub).cli
<1>1. out.thrown = "none" /\ add_subcommand(d, a, n).cli = f
  BY DEF add_subcommand, Chain, Throws
<1>2. sub \in AppIds /\ sub \notin DOMAIN d.apps
  BY NewAppId DEF WellFormed
<1>3. Room(d, 2)
  <2>1. Cardinality(DOMAIN d.options) \in Nat /\ Cardinality(OptionIds) \in Nat
    BY Counted, IdsAssumption, FS_CardinalityType
  <2> QED
    BY <2>1 DEF Room, EnoughIds
<1> HIDE DEF sub
<1>4. IsBorn(e, d, sub, 2) /\ NoMoreClashes(e, d)
  BY <1>1, <1>2, <1>3, NewAppIsBorn, NewAppNoMore
<1> HIDE DEF out
<1>5. WellFormed(e) /\ DOMAIN e.apps = DOMAIN d.apps \cup {sub} /\ Subs(e, sub) = {}
  BY <1>4 DEF IsBorn
<1>6. Loose(e, sub) /\ sub # Root /\ Below(e, sub) = {sub}
  BY <1>4, BornIsLoose
<1>7. a \in DOMAIN e.apps /\ sub \in DOMAIN e.apps /\ a \notin Below(e, sub)
  BY <1>2, <1>5, <1>6, AppsAre
<1>8. NoMoreClashes(f, e)
  BY <1>5, <1>6, <1>7, AttachNoMore
<1>9. /\ WellFormed(f) /\ DOMAIN f.apps = DOMAIN e.apps
      /\ \A c \in DOMAIN e.apps : Subs(f, c) \subseteq Subs(e, c) \cup {sub}
  BY <1>5, <1>6, <1>7, AttachKeeps DEF Keeps
<1> HIDE DEF f
<1>10. \A c \in DOMAIN d.apps : Subs(e, c) = Subs(d, c)
  BY <1>4 DEF IsBorn, Subs
<1>11. NoMoreApps(f, d)
  <2>1. Closed(d, Apps(d))
    BY AppsAre
  <2>2. ASSUME NEW b \in DOMAIN f.apps, b \in DOMAIN d.apps => b \in Apps(d)
        PROVE  Subs(f, b) \cap DOMAIN d.apps \subseteq Apps(d)
    <3>1. CASE b = sub
      BY <1>2, <1>5, <1>7, <1>9, <3>1
    <3>2. CASE b # sub
      BY <1>2, <1>5, <1>9, <1>10, <2>1, <2>2, <3>2 DEF Closed
    <3> QED
      BY <3>1, <3>2
  <2> QED
    BY <1>9, <2>2, AppsStay
<1> QED
  BY <1>1, <1>4, <1>8, <1>11, NoMoreThroughout

(***************************************************************************)
(* App::remove_subcommand.                                                 *)
(***************************************************************************)
LEMMA RemoveSubcommandQuiet ==
  ASSUME Commute, NEW d, WellFormed(d), NEW a \in DOMAIN d.apps, NEW sub
  PROVE  /\ NoMoreClashes(remove_subcommand(d, a, sub), d)
         /\ NoMoreApps(remove_subcommand(d, a, sub), d)
<1> DEFINE e == remove_subcommand(d, a, sub)
<1>1. IsLeft(e, d, a, sub)
  BY RemoveSubcommandLeaves
<1> HIDE DEF e
<1>2. NoMoreClashes(e, d)
  BY <1>1, FewerOptionsNoMore DEF IsLeft
<1>3. NoMoreApps(e, d)
  BY <1>1, FewerSubsNoMoreApps DEF IsLeft
<1> QED
  BY <1>2, <1>3 DEF e

(***************************************************************************)
(* Option_group::add_subcommand: the app goes to a group that is not below *)
(* it.                                                                     *)
(***************************************************************************)
LEMMA MoveSubcommandQuiet ==
  ASSUME Commute, NEW d, WellFormed(d), NEW sub \in Apps(d), sub # Root,
         NEW g \in DOMAIN d.apps, g \notin Below(d, sub)
  PROVE  /\ NoMoreClashes(move_subcommand(d, g, sub).cli, d)
         /\ NoMoreApps(move_subcommand(d, g, sub).cli, d)
<1> DEFINE p == d.apps[sub].parent
           e == remove_subcommand(d, p, sub)
           f == attach(e, g, sub).cli
<1>1. p \in DOMAIN d.apps /\ sub \in DOMAIN d.apps
  BY ParentIs, AppsAre
<1>2. \A b \in DOMAIN d.apps : sub \in Subs(d, b) => b = p
  BY DEF WellFormed, Placed, Subs
<1> HIDE DEF p
<1>3. IsLeft(e, d, p, sub) /\ NoMoreClashes(e, d)
  BY <1>1, RemoveSubcommandLeaves, RemoveSubcommandQuiet
<1> HIDE DEF e
<1>4. WellFormed(e) /\ g \in DOMAIN e.apps /\ sub \in DOMAIN e.apps
  BY <1>1, <1>3 DEF IsLeft
<1>5. Loose(e, sub)
  BY <1>2, <1>3 DEF Loose, IsLeft
<1>6. g \notin Below(e, sub)
  <2>1. /\ sub \in Below(d, sub) /\ Below(d, sub) \subseteq DOMAIN d.apps
        /\ Closed(d, Below(d, sub))
    BY <1>1, BelowFacts DEF WellFormed
  <2>2. Closed(e, Below(d, sub))
    BY <1>3, <2>1 DEF Closed, IsLeft
  <2>3. Below(d, sub) \in SUBSET DOMAIN e.apps
    BY <1>3, <2>1 DEF IsLeft
  <2>4. Below(e, sub) \subseteq Below(d, sub)
    BY <1>4, <2>1, <2>2, <2>3, BelowFacts DEF WellFormed
  <2> QED
    BY <2>4
<1>7. NoMoreClashes(f, e)
  BY <1>4, <1>5, <1>6, AttachNoMore
<1>8. /\ WellFormed(f) /\ DOMAIN f.apps = DOMAIN e.apps
      /\ \A c \in DOMAIN e.apps : Subs(f, c) \subseteq Subs(e, c) \cup {sub}
  BY <1>4, <1>5, <1>6, AttachKeeps DEF Keeps
<1>9. move_subcommand(d, g, sub).cli = f
  BY DEF move_subcommand, e, p
<1> HIDE DEF f
<1>10. NoMoreApps(f, d)
  <2>1. Closed(d, Apps(d))
    BY AppsAre
  <2>2. \A b \in DOMAIN d.apps : Subs(f, b) \subseteq Subs(d, b) \cup {sub}
    BY <1>3, <1>8 DEF IsLeft
  <2>3. DOMAIN f.apps = DOMAIN d.apps
    BY <1>3, <1>8 DEF IsLeft
  <2>4. \A b \in DOMAIN f.apps :
          (b \in DOMAIN d.apps => b \in Apps(d)) => Subs(f, b) \cap DOMAIN d.apps \subseteq Apps(d)
    BY <2>1, <2>2, <2>3 DEF Closed
  <2> QED
    BY <1>8, <2>4, AppsStay
<1> QED
  BY <1>3, <1>7, <1>9, <1>10, NoMoreThroughout

(***************************************************************************)
(* What a call that succeeds must be.                                      *)
(***************************************************************************)
Quiet(e, d) == NoMoreClashes(e, d) /\ NoMoreApps(e, d)

(***************************************************************************)
(* A call by which nothing goes to another place is,                       *)
(***************************************************************************)
LEMMA SamePlacesQuiet ==
  ASSUME Commute, NEW d, WellFormed(d), NEW e, SamePlaces(e, d)
  PROVE  Quiet(e, d)
BY SamePlacesNoMore, FewerSubsNoMoreApps DEF SamePlaces, Quiet

(***************************************************************************)
(* and one that replaces an option without a clash,                        *)
(***************************************************************************)
LEMMA ReplacesQuiet ==
  ASSUME NEW d, WellFormed(d), NEW a, NEW e, Replaces(e, d, a), NoMoreClashes(e, d)
  PROVE  Quiet(e, d)
BY ReplacesNoMoreApps DEF Quiet

(***************************************************************************)
(* and one that changes an option without a clash.                         *)
(***************************************************************************)
LEMMA OnlyOptionQuiet ==
  ASSUME NEW d, WellFormed(d), NEW o, NEW e, OnlyOption(e, d, o), NoMoreClashes(e, d)
  PROVE  Quiet(e, d)
BY FewerSubsNoMoreApps DEF OnlyOption, Quiet, Subs

(***************************************************************************)
(* So is each call that makes, removes or moves an option,                 *)
(***************************************************************************)
LEMMA ChangeOptionsQuiet ==
  ASSUME Commute, WellFormed(cli), Room(cli, 1), ChangeOptions, thrown' = "none"
  PROVE  Quiet(cli', cli)
<1>1. ASSUME AddOption PROVE Quiet(cli', cli)
  <2>1. PICK a \in Apps(cli), names \in OptionNames :
          cli' = add_option(cli, a, names).cli /\ add_option(cli, a, names).thrown = "none"
    BY <1>1 DEF AddOption, Makes
  <2> QED
    BY <2>1, ThingsAre, AddOptionReplaces, AddOptionNoMore, ReplacesQuiet
<1>2. ASSUME AddFlag PROVE Quiet(cli', cli)
  <2>1. PICK a \in Apps(cli), names \in FlagNames :
          cli' = add_flag(cli, a, names).cli /\ add_flag(cli, a, names).thrown = "none"
    BY <1>2 DEF AddFlag, Makes
  <2> QED
    BY <2>1, ThingsAre, AddFlagReplaces, AddFlagNoMore, ReplacesQuiet
<1>3. ASSUME RemoveOption PROVE Quiet(cli', cli)
  <2>1. PICK a, o : a \in Apps(cli) /\ o \in OwnOptions(cli, a) /\ cli' = remove_option(cli, a, o)
    BY <1>3 DEF RemoveOption, Makes, Returns
  <2>2. Removes(cli', cli, a, o) /\ NoMoreClashes(cli', cli)
    BY <2>1, ThingsAre, RemoveOptionRemoves, RemoveOptionNoMore
  <2> QED
    BY <2>1, <2>2, ThingsAre, SameReplaces, ReplacesQuiet
<1>4. ASSUME RetireOption PROVE Quiet(cli', cli)
  <2>1. PICK a, o :
          /\ a \in Apps(cli) /\ o \in OwnOptions(cli, a)
          /\ cli' = retire_option(cli, a, o).cli /\ retire_option(cli, a, o).thrown = "none"
    BY <1>4 DEF RetireOption, Makes
  <2> QED
    BY <2>1, ThingsAre, RetireOptionReplaces, RetireOptionNoMore, ReplacesQuiet
<1>5. ASSUME SetFlag PROVE Quiet(cli', cli)
  <2>1. PICK a \in Apps(cli), kind \in {"help", "help_all", "version"},
             names \in FlagNames \cup {<<>>} :
          /\ cli' = set_flag(cli, a, kind, names).cli
          /\ set_flag(cli, a, kind, names).thrown = "none"
    BY <1>5 DEF SetFlag, Makes
  <2>2. kind \in Kinds
    BY DEF Kinds
  <2> QED
    BY <2>1, <2>2, ThingsAre, SetFlagReplaces, SetFlagNoMore, ReplacesQuiet
<1>6. ASSUME SetConfig PROVE Quiet(cli', cli)
  <2>1. PICK a \in Apps(cli), names \in OptionNames \cup {<<>>} :
          cli' = set_config(cli, a, names).cli /\ set_config(cli, a, names).thrown = "none"
    BY <1>6 DEF SetConfig, Makes
  <2> QED
    BY <2>1, ThingsAre, SetConfigReplaces, SetConfigNoMore, ReplacesQuiet
<1>7. ASSUME MoveOption PROVE Quiet(cli', cli)
  <2>1. PICK g \in Groups, o \in Options(cli) :
          cli' = move_option(cli, g, o).cli /\ move_option(cli, g, o).thrown = "none"
    BY <1>7 DEF MoveOption, Makes
  <2>2. g \in Apps(cli) /\ g # Root
    BY DEF Groups
  <2>3. NoMoreClashes(cli', cli) /\ IsMoved(cli', cli, cli.apps[g].parent, g, o)
    BY <2>1, <2>2, MoveOptionIs, MoveOptionNoMore
  <2> QED
    BY <2>3, FewerSubsNoMoreApps DEF IsMoved, Quiet
<1> QED
  BY <1>1, <1>2, <1>3, <1>4, <1>5, <1>6, <1>7 DEF ChangeOptions

(***************************************************************************)
(* Links are no names.                                                     *)
(***************************************************************************)
LEMMA LinkedNames ==
  ASSUME NEW opt, NameFields \subseteq DOMAIN opt, NEW linked
  PROVE  /\ SameNamed([opt EXCEPT !.needs = linked], opt)
         /\ SameNamed([opt EXCEPT !.excludes = linked], opt)
BY DEF SameNamed, NameFields

(***************************************************************************)
(* What is no change of names is quiet,                                    *)
(***************************************************************************)
LEMMA SetQuiet ==
  ASSUME Commute, NEW d, WellFormed(d), NEW o \in DOMAIN d.options, NEW opt,
         SameNamed(opt, d.options[o]), NEW e, e = Set(d, o, opt), WellFormed(e)
  PROVE  Quiet(e, d)
<1>1. NoMoreClashes(e, d)
  BY SameNamedNoMore
<1>2. e.apps = d.apps
  BY SetFacts DEF WellFormed
<1> QED
  BY <1>1, <1>2, FewerSubsNoMoreApps DEF Quiet, Subs

(***************************************************************************)
(* as most calls about one option are.                                     *)
(***************************************************************************)
LEMMA SetOptionQuiet ==
  ASSUME Commute, WellFormed(cli), WellFormed(cli'), NEW op, NEW o \in Options(cli), NEW opt,
         SameNamed(opt, cli.options[o]), SetOption(op, o, opt)
  PROVE  Quiet(cli', cli)
<1>1. cli' = Set(cli, o, opt) /\ o \in DOMAIN cli.options
  BY ThingsAre DEF SetOption, Makes, Returns
<1> QED
  BY <1>1, SetQuiet

(***************************************************************************)
(* Option::excludes, which changes two options.                            *)
(***************************************************************************)
LEMMA ExcludesQuiet ==
  ASSUME Commute, NEW d, WellFormed(d), NEW o \in DOMAIN d.options, NEW p \in DOMAIN d.options
  PROVE  Quiet(excludes(d, o, p).cli, d)
<1> DEFINE old == d.options[o]
           other == d.options[p]
           new == [old EXCEPT !.excludes = old.excludes \cup {p}]
           changed == [other EXCEPT !.excludes = other.excludes \cup {o}]
           e == Set(d, o, new)
           f == Set(e, p, changed)
<1>1. Quiet(d, d)
  BY DEF Quiet, NoMoreClashes, NoMoreApps
<1>2. IsOption(old, DOMAIN d.options) /\ IsOption(other, DOMAIN d.options)
  BY OptionsAre DEF WellFormed
<1>3. SameNamed(new, old) /\ SameNamed(changed, other)
  <2> HIDE DEF old, other
  <2> QED
    BY <1>2, LinkedNames, NameFieldsAre DEF IsOption
<1>4. IsOption(new, DOMAIN d.options)
  <2> HIDE DEF old
  <2>1. old.excludes \cup {p} \in SUBSET DOMAIN d.options
    BY <1>2 DEF IsOption
  <2> QED
    BY <1>2, <2>1, LinkedIsOption
<1>5. CASE o = p
  BY <1>1, <1>5 DEF excludes, Throws
<1>6. CASE o # p
  <2>1. excludes(d, o, p).cli = f
    BY <1>6 DEF excludes, Set, WellFormed, Shaped, Returns
  <2>2. WellFormed(f)
    BY <2>1, ExcludesKeeps DEF Keeps
  <2> HIDE DEF new, changed
  <2>3. OnlyOption(e, d, o) /\ NoMoreClashes(e, d)
    BY <1>3, <1>4, SetOnlyOption, SameNamedNoMore
  <2> HIDE DEF e
  <2>4. WellFormed(e) /\ p \in DOMAIN e.options /\ e.options[p] = other /\ e.apps = d.apps
    BY <1>6, <2>3 DEF OnlyOption
  <2>5. NoMoreClashes(f, e) /\ f.apps = e.apps
    BY <1>3, <2>4, SameNamedNoMore, SetFacts DEF WellFormed
  <2> HIDE DEF f
  <2>6. NoMoreClashes(f, d)
    BY <2>3, <2>5, NoMoreThroughout
  <2> QED
    BY <2>1, <2>2, <2>4, <2>5, <2>6, FewerSubsNoMoreApps DEF Quiet, Subs
<1> QED
  BY <1>5, <1>6

(***************************************************************************)
(* Each call that changes one option,                                      *)
(***************************************************************************)
LEMMA ChangeOptionQuiet ==
  ASSUME Commute, WellFormed(cli), ChangeOption, thrown' = "none"
  PROVE  Quiet(cli', cli)
<1>1. WellFormed(cli')
  BY ChangeOptionKeeps DEF Keeps
<1>2. \A o \in Options(cli) : NameFields \subseteq DOMAIN cli.options[o]
  BY ThingsAre, NameFieldsAre DEF IsOption
<1>3. ASSUME OptionIgnores PROVE Quiet(cli', cli)
  <2>1. PICK o \in Options(cli), what \in Ignorable, value \in BOOLEAN :
          /\ cli' = option_ignores(cli, o, what, value).cli
          /\ option_ignores(cli, o, what, value).thrown = "none"
    BY <1>3 DEF OptionIgnores, Makes
  <2>2. OnlyOption(cli', cli, o) /\ NoMoreClashes(cli', cli)
    BY <2>1, ThingsAre, OptionIgnoresKeeps, OptionIgnoresNoMore
  <2> QED
    BY <2>2, OnlyOptionQuiet
<1>4. ASSUME IgnoreByDefault PROVE Quiet(cli', cli)
  <2>1. PICK a \in Apps(cli), what \in Ignorable :
          SetApp("defaults", a, [cli.apps[a] EXCEPT !.defaults[what] = TRUE])
    BY <1>4 DEF IgnoreByDefault
  <2>2. SameTies([cli.apps[a] EXCEPT !.defaults[what] = TRUE], cli.apps[a])
    BY ThingsAre, OtherFieldKeepsTies DEF TiedFields
  <2> QED
    BY <2>1, <2>2, SetOneAppKeeps, SamePlacesQuiet
<1>5. ASSUME RequireByDefault PROVE Quiet(cli', cli)
  <2>1. PICK a \in Apps(cli) :
          SetApp("defaults", a, [cli.apps[a] EXCEPT !.defaults.required = TRUE,
                                                    !.defaults.policy = "TakeAll"])
    BY <1>5 DEF RequireByDefault
  <2>2. TiedFields \subseteq DOMAIN cli.apps[a] /\ "defaults" \notin TiedFields
    BY ThingsAre DEF DefaultApp, TiedFields
  <2>3. SameTies([cli.apps[a] EXCEPT !.defaults.required = TRUE,
                                     !.defaults.policy = "TakeAll"], cli.apps[a])
    BY <2>2 DEF SameTies, TiedFields
  <2> QED
    BY <2>1, <2>3, SetOneAppKeeps, SamePlacesQuiet
<1>6. ASSUME TypeSize PROVE Quiet(cli', cli)
  <2>1. PICK o \in Options(cli), size \in SizeArguments :
          SetOption("size", o, type_size(cli.options[o], size))
    BY <1>6 DEF TypeSize
  <2> QED
    BY <1>1, <1>2, <2>1, SizesNames, SetOptionQuiet
<1>7. ASSUME TypeSizes PROVE Quiet(cli', cli)
  <2>1. PICK o \in Options(cli), range \in RangeArguments :
          SetOption("size", o, type_sizes(cli.options[o], range[1], range[2]))
    BY <1>7 DEF TypeSizes
  <2> QED
    BY <1>1, <1>2, <2>1, SizesNames, SetOptionQuiet
<1>8. ASSUME Expected PROVE Quiet(cli', cli)
  <2>1. PICK o \in Options(cli), value \in SizeArguments :
          SetOption("size", o, expected(cli.options[o], value))
    BY <1>8 DEF Expected
  <2> QED
    BY <1>1, <1>2, <2>1, SizesNames, SetOptionQuiet
<1>9. ASSUME ExpectedRange PROVE Quiet(cli', cli)
  <2>1. PICK o \in Options(cli), range \in RangeArguments :
          SetOption("size", o, expected_range(cli.options[o], range[1], range[2]))
    BY <1>9 DEF ExpectedRange
  <2> QED
    BY <1>1, <1>2, <2>1, SizesNames, SetOptionQuiet
<1>10. ASSUME Policy PROVE Quiet(cli', cli)
  <2>1. PICK o \in Options(cli), policy \in {"Throw", "TakeAll"} :
          SetOption("size", o, multi_option_policy(cli.options[o], policy))
    BY <1>10 DEF Policy
  <2> QED
    BY <1>1, <1>2, <2>1, PolicyNames, SetOptionQuiet
<1>11. ASSUME Needs \/ RemoveNeeds PROVE Quiet(cli', cli)
  <2>1. PICK op, o, linked :
          o \in Options(cli) /\ SetOption(op, o, [cli.options[o] EXCEPT !.needs = linked])
    BY <1>11 DEF Needs, RemoveNeeds
  <2> QED
    BY <1>1, <1>2, <2>1, LinkedNames, SetOptionQuiet
<1>12. ASSUME RemoveExcludes PROVE Quiet(cli', cli)
  <2>1. PICK op, o, linked :
          o \in Options(cli) /\ SetOption(op, o, [cli.options[o] EXCEPT !.excludes = linked])
    BY <1>12 DEF RemoveExcludes
  <2> QED
    BY <1>1, <1>2, <2>1, LinkedNames, SetOptionQuiet
<1>13. ASSUME Excludes PROVE Quiet(cli', cli)
  <2>1. PICK o \in Options(cli), p \in Options(cli) : cli' = excludes(cli, o, p).cli
    BY <1>13 DEF Excludes, Makes
  <2> QED
    BY <2>1, ThingsAre, ExcludesQuiet
<1> QED
  BY <1>3, <1>4, <1>5, <1>6, <1>7, <1>8, <1>9, <1>10, <1>11, <1>12, <1>13 DEF ChangeOption

(***************************************************************************)
(* and each that makes, removes or moves an app.                           *)
(***************************************************************************)
LEMMA ChangeAppsQuiet ==
  ASSUME Commute, WellFormed(cli), EnoughIds(cli, 1), ChangeApps, thrown' = "none"
  PROVE  Quiet(cli', cli)
<1>1. ASSUME AddSubcommand \/ AddOptionGroup PROVE Quiet(cli', cli)
  <2>1. PICK a, n : /\ a \in Apps(cli)
                    /\ cli' = add_subcommand(cli, a, n).cli
                    /\ add_subcommand(cli, a, n).thrown = "none"
    BY <1>1 DEF AddSubcommand, AddOptionGroup, Makes
  <2> QED
    BY <2>1, AddSubcommandQuiet DEF Quiet
<1>2. ASSUME RemoveSubcommand PROVE Quiet(cli', cli)
  <2>1. PICK a, sub :
          a \in Apps(cli) /\ cli' = remove_subcommand(cli, a, sub)
    BY <1>2 DEF RemoveSubcommand, Makes, Returns
  <2> QED
    BY <2>1, ThingsAre, RemoveSubcommandQuiet DEF Quiet
<1>3. ASSUME MoveSubcommand PROVE Quiet(cli', cli)
  <2>1. PICK g \in Groups, sub \in Apps(cli) \ {Root} :
          g \notin Below(cli, sub) /\ cli' = move_subcommand(cli, g, sub).cli
    BY <1>3 DEF MoveSubcommand, Makes
  <2>2. g \in DOMAIN cli.apps
    BY ThingsAre DEF Groups
  <2> QED
    BY <2>1, <2>2, MoveSubcommandQuiet DEF Quiet
<1> QED
  BY <1>1, <1>2, <1>3 DEF ChangeApps

(***************************************************************************)
(* A call that succeeds never makes two options of the app in which they   *)
(* were made answer to a name of one of them, whatever is ignored by which *)
(* and in whatever order that was said: though the check is of one option  *)
(* when it comes or begins to ignore something, and matching_name asks an  *)
(* option that ignores nothing only whether the other knows it.            *)
(***************************************************************************)
THEOREM NoNewClashes ==
  ASSUME Commute
  PROVE  Spec => NoNewClash
<1> DEFINE A == thrown' = "none" =>
                  \A a \in Apps(cli)' : \A o, p \in OwnOptions(cli, a)' :
                    Clash(cli, a, o, p)' => a \in Apps(cli) /\ Clash(cli, a, o, p)
<1>1. ASSUME IInv, Next PROVE A
  <2> SUFFICES ASSUME thrown' = "none" PROVE A
    OBVIOUS
  <2>1. EnoughIds(cli, 1) /\ Room(cli, 1) /\ WellFormed(cli)
    BY <1>1, RoomForACall DEF Next, IInv
  <2>2. Quiet(cli', cli)
    BY <1>1, <2>1, ChangeOptionsQuiet, ChangeOptionQuiet, ChangeAppsQuiet,
       ChangeAppKeeps, SamePlacesQuiet DEF Next
  <2>3. Apps(cli') \subseteq DOMAIN cli'.apps
    BY <1>1, StepKeeps, AppsAre DEF Keeps
  <2> QED
    BY <2>2, <2>3 DEF Quiet, NoMoreClashes, NoMoreApps
<1>2. IInv /\ [Next]_vars => [A]_vars
  BY <1>1
<1> QED
  BY <1>2, Invariant, PTL DEF Spec, NoNewClash
=============================================================================
