-------------------------- MODULE CliParse_proofs --------------------------
(***************************************************************************)
(* Proofs about CliParse: for every definition that is a tree, every line, *)
(* every set of files and every environment, a parse leaves apps and       *)
(* options that are the definition's own, gives help to who asks for it    *)
(* before it complains, succeeds only if every requirement is met and, if  *)
(* no app has an immediate callback, every option given was handed on, and *)
(* calls the final callbacks last.  A recursive function of the parser has *)
(* a value because what it looks at next is below, or above, in a finite   *)
(* tree (Sums_proofs); its equation then says what the value is.           *)
(***************************************************************************)
EXTENDS CliParse, Sums_proofs, SequenceTheorems

(* The length, the domain and the elements of a sequence.                  *)
LEMMA SequenceFacts ==
  ASSUME NEW s, IsSequence(s)
  PROVE  /\ Len(s) \in Nat /\ DOMAIN s = 1 .. Len(s)
         /\ \A i \in 1 .. Len(s) : s[i] \in Range(s)
BY DEF IsSequence, Range

(* A member of Seq(S) is a sequence of elements of S.                      *)
LEMMA SequencesAre ==
  ASSUME NEW S, NEW s \in Seq(S)
  PROVE  IsSequence(s) /\ Range(s) \subseteq S
<1>1. Range(s) \subseteq S
  BY DEF Range
<1>2. Len(s) \in Nat /\ DOMAIN s = 1 .. Len(s) /\ s = [i \in 1 .. Len(s) |-> s[i]]
  OBVIOUS
<1>3. \A i \in 1 .. Len(s) : s[i] \in Range(s)
  BY <1>2 DEF Range
<1>4. [i \in 1 .. Len(s) |-> s[i]] \in Seq(Range(s))
  BY <1>2, <1>3
<1> QED
  BY <1>1, <1>2, <1>4 DEF IsSequence

(* A function on the numbers up to n is a sequence of length n.            *)
LEMMA Made ==
  ASSUME NEW n \in Nat, NEW f
  PROVE  LET s == [i \in 1 .. n |-> f[i]] IN IsSequence(s) /\ Len(s) = n
<1> DEFINE s == [i \in 1 .. n |-> f[i]]
           S == {f[i] : i \in 1 .. n}
<1>1. s \in Seq(S) /\ Len(s) = n
  OBVIOUS
<1> HIDE DEF s, S
<1> QED
  BY <1>1, SequencesAre DEF s

(* What stands where in two sequences joined.                              *)
LEMMA ConcatFacts ==
  ASSUME NEW s, NEW t, IsSequence(s), IsSequence(t)
  PROVE  /\ IsSequence(s \o t) /\ Len(s \o t) = Len(s) + Len(t)
         /\ \A i \in 1 .. Len(s) : (s \o t)[i] = s[i]
         /\ \A i \in 1 .. Len(t) : (s \o t)[Len(s) + i] = t[i]
         /\ Range(s \o t) = Range(s) \cup Range(t)
<1> DEFINE S == Range(s) \cup Range(t)
           r == s \o t
<1>1. s \in Seq(S) /\ t \in Seq(S)
  BY DEF IsSequence
<1> HIDE DEF S
<1>2. /\ r \in Seq(S) /\ Len(r) = Len(s) + Len(t) /\ DOMAIN r = 1 .. Len(s) + Len(t)
      /\ \A i \in 1 .. Len(s) : r[i] = s[i]
      /\ \A i \in 1 .. Len(t) : r[Len(s) + i] = t[i]
  BY <1>1
<1>3. Len(s) \in Nat /\ DOMAIN s = 1 .. Len(s) /\ Len(t) \in Nat /\ DOMAIN t = 1 .. Len(t)
  BY <1>1
<1> HIDE DEF r
<1>5. IsSequence(r) /\ Range(r) \subseteq S
  BY <1>2, SequencesAre
<1>6. Range(s) \cup Range(t) \subseteq Range(r)
  <2>1. ASSUME NEW i \in 1 .. Len(s) PROVE s[i] \in Range(r)
    BY <1>2, <1>3 DEF Range
  <2>2. ASSUME NEW i \in 1 .. Len(t) PROVE t[i] \in Range(r)
    <3>1. Len(s) + i \in DOMAIN r
      BY <1>2, <1>3
    <3> QED
      BY <1>2, <3>1 DEF Range
  <2> QED
    BY <1>3, <2>1, <2>2 DEF Range
<1> QED
  BY <1>2, <1>5, <1>6 DEF r, S

(* What stands where in the tail of a sequence that is not empty.          *)
LEMMA TailFacts ==
  ASSUME NEW s, IsSequence(s), s # <<>>
  PROVE  /\ IsSequence(Tail(s)) /\ Len(Tail(s)) = Len(s) - 1 /\ Len(s) >= 1
         /\ \A i \in 1 .. Len(s) - 1 : Tail(s)[i] = s[i + 1]
         /\ Head(s) = s[1] /\ Head(s) \in Range(s)
         /\ Range(Tail(s)) \subseteq Range(s)
<1> DEFINE S == Range(s)
<1>1. s \in Seq(S)
  BY DEF IsSequence
<1> HIDE DEF S
<1>2. /\ Tail(s) \in Seq(S) /\ Len(Tail(s)) = Len(s) - 1 /\ Len(s) >= 1
      /\ \A i \in 1 .. Len(s) - 1 : Tail(s)[i] = s[i + 1]
      /\ Head(s) = s[1] /\ Head(s) \in S
  BY <1>1
<1> QED
  BY <1>2, SequencesAre DEF S

(* The sequences of one element and of none.                               *)
LEMMA OneFacts ==
  ASSUME NEW e
  PROVE  /\ IsSequence(<<e>>) /\ Len(<<e>>) = 1 /\ <<e>>[1] = e /\ Range(<<e>>) = {e}
         /\ IsSequence(<<>>) /\ Len(<<>>) = 0 /\ Range(<<>>) = {}
<1>1. <<e>> \in Seq({e}) /\ Len(<<e>>) = 1 /\ DOMAIN <<e>> = {1} /\ <<e>>[1] = e
  OBVIOUS
<1>2. <<>> \in Seq({}) /\ Len(<<>>) = 0
  OBVIOUS
<1>3. IsSequence(<<e>>) /\ IsSequence(<<>>) /\ Range(<<>>) \subseteq {}
  <2> DEFINE one == <<e>>
             no == <<>>
  <2>1. one \in Seq({e}) /\ no \in Seq({})
    BY <1>1, <1>2
  <2> HIDE DEF one, no
  <2>2. IsSequence(one) /\ IsSequence(no) /\ Range(no) \subseteq {}
    BY <2>1, SequencesAre
  <2> QED
    BY <2>2 DEF one, no
<1>4. Range(<<e>>) = {e}
  BY <1>1 DEF Range
<1> QED
  BY <1>1, <1>2, <1>3, <1>4

(* The empty sequence.                                                     *)
LEMMA EmptyFacts == IsSequence(<<>>) /\ Len(<<>>) = 0 /\ Range(<<>>) = {}
BY OneFacts

(* The empty sequence in front of another changes nothing.                 *)
LEMMA NothingFirst ==
  ASSUME NEW s, IsSequence(s)
  PROVE  <<>> \o s = s
<1> DEFINE S == Range(s)
<1>1. s \in Seq(S)
  BY DEF IsSequence
<1> HIDE DEF S
<1> QED
  BY <1>1

(* A part of a sequence is a sequence of some of its elements.             *)
LEMMA PartFacts ==
  ASSUME NEW s, IsSequence(s), NEW m \in Nat \ {0}, NEW n \in 0 .. Len(s)
  PROVE  /\ IsSequence(SubSeq(s, m, n)) /\ Range(SubSeq(s, m, n)) \subseteq Range(s)
         /\ Len(SubSeq(s, m, n)) = IF m <= n THEN n - m + 1 ELSE 0
<1> DEFINE S == Range(s)
<1>1. s \in Seq(S)
  BY DEF IsSequence
<1> HIDE DEF S
<1>2. Len(SubSeq(s, m, n)) = IF m <= n THEN n - m + 1 ELSE 0
  BY <1>1
<1>3. SubSeq(s, m, n) \in Seq(S)
  BY <1>1
<1> QED
  BY <1>2, <1>3, SequencesAre DEF S

(* First finds an element of the sequence that passes, or there is none. *)
LEMMA AtFacts ==
  ASSUME NEW seq, IsSequence(seq), NEW places, places \subseteq DOMAIN seq, NEW none
  PROVE  \/ places = {} /\ At(seq, places, none) = none
         \/ \E i \in places : At(seq, places, none) = seq[i]
<1>1. CASE places = {}
  BY <1>1 DEF At
<1>2. CASE places # {}
  <2>1. places \in SUBSET Nat
    BY SequenceFacts
  <2>2. PICK k \in places : \A m \in places : k <= m
    BY <1>2, <2>1, LeastNumber
  <2>3. Min(places) \in places
    BY <2>2 DEF Min
  <2> QED
    BY <1>2, <2>3 DEF At
<1> QED
  BY <1>1, <1>2
-----------------------------------------------------------------------------
Definition == Interfaces[cli]

(* What an app of a definition lists, and all that is below it.            *)
SubsIn(d, a) == Range(d.apps[a].subs)
OptionsIn(d, a) == Range(d.apps[a].options)

Closed(d, S) == \A a \in S : SubsIn(d, a) \subseteq S
Under(d, a) ==
  {b \in DOMAIN d.apps : \A S \in SUBSET DOMAIN d.apps : SubsIn(d, a) \subseteq S /\ Closed(d, S) => b \in S}

(* The apps and options that an app lists are those of the definition, and *)
(* an app that is listed has its lister as parent and is not the root.     *)
LEMMA TreeIs ==
  ASSUME NEW d, IsTree(d), NEW a \in DOMAIN d.apps
  PROVE  /\ IsSequence(d.apps[a].subs) /\ SubsIn(d, a) \subseteq DOMAIN d.apps
         /\ IsSequence(d.apps[a].options) /\ OptionsIn(d, a) \subseteq DOMAIN d.options
         /\ \A sub \in SubsIn(d, a) : d.apps[sub].parent = a /\ sub # d.root
<1>1. /\ d.apps[a].subs \in Seq(DOMAIN d.apps) /\ d.apps[a].options \in Seq(DOMAIN d.options)
      /\ \A sub \in Range(d.apps[a].subs) : d.apps[sub].parent = a
      /\ d.apps[d.root].parent = NoApp /\ NoApp \notin DOMAIN d.apps
  BY DEF IsTree
<1> QED
  BY <1>1, SequencesAre DEF SubsIn, OptionsIn

(* Every app but the root has a parent that lists it.                      *)
LEMMA ParentIs ==
  ASSUME NEW d, IsTree(d), NEW a \in DOMAIN d.apps
  PROVE  /\ a = d.root <=> d.apps[a].parent = NoApp
         /\ a # d.root => d.apps[a].parent \in DOMAIN d.apps /\ a \in SubsIn(d, d.apps[a].parent)
<1>1. CASE a = d.root
  BY <1>1 DEF IsTree
<1>2. CASE a # d.root
  <2>1. PICK b \in DOMAIN d.apps : a \in Range(d.apps[b].subs)
    BY <1>2 DEF IsTree
  <2>2. d.apps[a].parent = b
    BY <2>1 DEF IsTree
  <2>3. b # NoApp
    BY DEF IsTree
  <2> QED
    BY <1>2, <2>1, <2>2, <2>3 DEF SubsIn
<1> QED
  BY <1>1, <1>2

(* Under(d, a) is the least set that holds what a lists and what its own   *)
(* members list.                                                           *)
LEMMA UnderFacts ==
  ASSUME NEW d, IsTree(d), NEW a \in DOMAIN d.apps
  PROVE  /\ Under(d, a) \subseteq DOMAIN d.apps
         /\ SubsIn(d, a) \subseteq Under(d, a) /\ Closed(d, Under(d, a))
         /\ \A S \in SUBSET DOMAIN d.apps :
              SubsIn(d, a) \subseteq S /\ Closed(d, S) => Under(d, a) \subseteq S
<1>1. SubsIn(d, a) \subseteq DOMAIN d.apps
  BY TreeIs
<1>2. \A b \in DOMAIN d.apps : SubsIn(d, b) \subseteq DOMAIN d.apps
  BY TreeIs
<1>3. SubsIn(d, a) \subseteq Under(d, a)
  BY <1>1 DEF Under
<1>4. Closed(d, Under(d, a))
  BY <1>2 DEF Under, Closed
<1> QED
  BY <1>3, <1>4 DEF Under

(* What is under a listed app is under its lister.                         *)
LEMMA UnderSub ==
  ASSUME NEW d, IsTree(d), NEW a \in DOMAIN d.apps, NEW sub \in SubsIn(d, a)
  PROVE  sub \in Under(d, a) /\ Under(d, sub) \subseteq Under(d, a)
<1>1. sub \in DOMAIN d.apps
  BY TreeIs
<1>2. sub \in Under(d, a) /\ SubsIn(d, sub) \subseteq Under(d, a)
  BY UnderFacts DEF Closed
<1>3. Under(d, a) \in SUBSET DOMAIN d.apps /\ Closed(d, Under(d, a))
  BY UnderFacts
<1> QED
  BY <1>1, <1>2, <1>3, UnderFacts

(* What is under an app is listed by it or under an app it lists.          *)
LEMMA UnderUnfolds ==
  ASSUME NEW d, IsTree(d), NEW a \in DOMAIN d.apps
  PROVE  \A b \in Under(d, a) : \E sub \in SubsIn(d, a) : b = sub \/ b \in Under(d, sub)
<1> DEFINE T == {b \in DOMAIN d.apps : \E sub \in SubsIn(d, a) : b = sub \/ b \in Under(d, sub)}
<1>1. SubsIn(d, a) \subseteq T
  BY TreeIs
<1>2. Closed(d, T)
  <2> SUFFICES ASSUME NEW b \in T, NEW c \in SubsIn(d, b) PROVE c \in T
    BY DEF Closed
  <2>1. PICK sub \in SubsIn(d, a) : b = sub \/ b \in Under(d, sub)
    OBVIOUS
  <2>2. sub \in DOMAIN d.apps /\ c \in DOMAIN d.apps
    BY TreeIs
  <2>3. c \in Under(d, sub)
    BY <2>1, <2>2, UnderFacts DEF Closed
  <2> QED
    BY <2>2, <2>3
<1>3. T \in SUBSET DOMAIN d.apps
  OBVIOUS
<1> HIDE DEF T
<1>4. Under(d, a) \subseteq T
  BY <1>1, <1>2, <1>3, UnderFacts
<1> QED
  BY <1>4 DEF T

(* An app that is under another has a parent there, and is not the root.   *)
LEMMA UnderParent ==
  ASSUME NEW d, IsTree(d), NEW a \in DOMAIN d.apps, NEW b \in Under(d, a)
  PROVE  /\ b \in DOMAIN d.apps /\ b # d.root
         /\ d.apps[b].parent = a \/ d.apps[b].parent \in Under(d, a)
<1> DEFINE T == {c \in Under(d, a) : c # d.root /\ (d.apps[c].parent = a \/ d.apps[c].parent \in Under(d, a))}
<1>1. SubsIn(d, a) \subseteq T
  BY TreeIs, UnderFacts
<1>2. Closed(d, T)
  <2> SUFFICES ASSUME NEW c \in T, NEW sub \in SubsIn(d, c) PROVE sub \in T
    BY DEF Closed
  <2>1. c \in DOMAIN d.apps
    BY UnderFacts
  <2>2. d.apps[sub].parent = c /\ sub # d.root
    BY <2>1, TreeIs
  <2>3. sub \in Under(d, a)
    BY UnderFacts DEF Closed
  <2> QED
    BY <2>2, <2>3
<1>3. T \in SUBSET DOMAIN d.apps
  BY UnderFacts
<1>4. Under(d, a) \subseteq DOMAIN d.apps
  BY UnderFacts
<1> HIDE DEF T
<1>5. Under(d, a) \subseteq T
  BY <1>1, <1>2, <1>3, UnderFacts
<1> QED
  BY <1>4, <1>5 DEF T

(* To list and to be under are relations that recursions end on.           *)
LEMMA TreeGrounded ==
  ASSUME NEW d, IsTree(d)
  PROVE  /\ Grounded(DOMAIN d.apps, [a \in DOMAIN d.apps |-> SubsIn(d, a)])
         /\ Grounded(DOMAIN d.apps, [a \in DOMAIN d.apps |-> Under(d, a)])
<1>1. Grounded(DOMAIN d.apps, [a \in DOMAIN d.apps |-> SubsIn(d, a)])
  BY DEF IsTree, NoCycle, Grounded, SubsIn
<1>2. ASSUME NEW S \in SUBSET DOMAIN d.apps, S # {}
      PROVE  \E a \in S : Under(d, a) \cap S = {}
  <2> DEFINE X == {x \in DOMAIN d.apps : x \in S \/ Under(d, x) \cap S # {}}
  <2>1. X # {} /\ X \in SUBSET DOMAIN d.apps
    BY <1>2
  <2>2. PICK x \in X : SubsIn(d, x) \cap X = {}
    <3> HIDE DEF X
    <3> QED
      BY <2>1 DEF IsTree, NoCycle, SubsIn
  <2>3. \A sub \in SubsIn(d, x) : sub \notin S /\ Under(d, sub) \cap S = {}
    BY <2>2, TreeIs
  <2>4. Under(d, x) \cap S = {}
    BY <2>3, UnderUnfolds
  <2> QED
    BY <2>4
<1> QED
  BY <1>1, <1>2 DEF Grounded

(* Of some apps one is under none of the others.                           *)
LEMMA Topmost ==
  ASSUME NEW d, IsTree(d), NEW S \in SUBSET DOMAIN d.apps, S # {}
  PROVE  \E a \in S : \A b \in S : a \notin Under(d, b)
<1> DEFINE C == {T \in SUBSET DOMAIN d.apps : \E a \in S : T \subseteq Under(d, a)}
<1>1. PICK T \in C : Largest(DOMAIN d.apps, C, T)
  <2>1. {} \in C /\ C \subseteq SUBSET DOMAIN d.apps
    OBVIOUS
  <2> HIDE DEF C
  <2>2. SetsOver(DOMAIN d.apps, C) /\ C # {}
    BY <2>1 DEF SetsOver, IsTree
  <2> QED
    BY <2>2, LargestSet
<1>2. PICK a \in S : T \subseteq Under(d, a)
  OBVIOUS
<1>3. a \notin Under(d, a)
  <2>1. Grounded(DOMAIN d.apps, [b \in DOMAIN d.apps |-> Under(d, b)])
    BY TreeGrounded
  <2>2. {a} \in SUBSET DOMAIN d.apps /\ {a} # {}
    OBVIOUS
  <2>3. PICK b \in {a} : [c \in DOMAIN d.apps |-> Under(d, c)][b] \cap {a} = {}
    BY <2>1, <2>2 DEF Grounded
  <2> QED
    BY <2>3
<1>4. ASSUME NEW b \in S, a \in Under(d, b)
      PROVE  FALSE
  <2>1. Under(d, b) \in SUBSET DOMAIN d.apps /\ Closed(d, Under(d, b))
    BY UnderFacts
  <2>2. SubsIn(d, a) \subseteq Under(d, b)
    BY <1>4, <2>1 DEF Closed
  <2>3. Under(d, a) \subseteq Under(d, b)
    BY <2>1, <2>2, UnderFacts
  <2>4. T \cup {a} \in C
    BY <1>2, <1>4, <2>3
  <2> QED
    BY <1>1, <1>2, <1>3, <2>4 DEF Largest
<1> QED
  BY <1>4

-----------------------------------------------------------------------------
(* The definition of the program: a tree whose root and apps are those of  *)
(* the operators.                                                          *)
LEMMA Now ==
  ASSUME cli \in DOMAIN Interfaces
  PROVE  /\ IsTree(Definition)
         /\ Apps = DOMAIN Definition.apps /\ Root = Definition.root /\ Root \in Apps
         /\ \A a \in Apps : App(a) = Definition.apps[a]
         /\ IsFiniteSet(Apps) /\ NoApp \notin Apps
BY InterfacesAssumption DEF Definition, Apps, Root, App, IsTree

SubsOf == [a \in Apps |-> SubsIn(Definition, a)]

(* A recursion over the apps an app lists ends.                            *)
LEMMA NowGrounded ==
  ASSUME cli \in DOMAIN Interfaces
  PROVE  Grounded(Apps, SubsOf) /\ \A b \in Apps : SubsOf[b] \subseteq Apps
<1>1. IsTree(Definition) /\ Apps = DOMAIN Definition.apps
  BY Now
<1>2. Grounded(Apps, [a \in Apps |-> SubsIn(Definition, a)])
  BY <1>1, TreeGrounded
<1>3. \A b \in Apps : SubsIn(Definition, b) \subseteq Apps
  BY <1>1, TreeIs
<1> QED
  BY <1>2, <1>3 DEF SubsOf

(* _find_subcommand, unfolded once: it finds an app under the one asked.   *)
FindAt(f, b, name, ignore_disabled, ignore_used) ==
  LET Inside(sub) == IF Nameless(sub) THEN f[sub] ELSE NoApp
      Itself(sub) == app_check_name(sub, name) /\ (apps[sub].parsed = 0 \/ ~ignore_used)
      Holds(sub) == /\ ~(apps[sub].disabled /\ ignore_disabled)
                    /\ Inside(sub) # NoApp \/ Itself(sub)
      first == First(App(b).subs, Holds, NoApp)
  IN  IF first # NoApp /\ Inside(first) # NoApp THEN Inside(first) ELSE first

IsFind(f, name, ignore_disabled, ignore_used) ==
  f = [b \in Apps |-> FindAt(f, b, name, ignore_disabled, ignore_used)]

(* find_subcommand is a function that solves this equation.                *)
LEMMA FindIs ==
  ASSUME NEW a, NEW name, NEW ignore_disabled, NEW ignore_used
  PROVE  find_subcommand(a, name, ignore_disabled, ignore_used) =
           (CHOOSE f : IsFind(f, name, ignore_disabled, ignore_used))[a]
BY DEF find_subcommand, IsFind, FindAt

(* One unfolding finds an app under the one asked, or none, if what it is  *)
(* made of does.                                                           *)
LEMMA FindType ==
  ASSUME cli \in DOMAIN Interfaces, NEW b \in Apps, NEW f,
         NEW name, NEW ignore_disabled, NEW ignore_used,
         \A c \in SubsIn(Definition, b) : f[c] \in Under(Definition, c) \cup {NoApp}
  PROVE  FindAt(f, b, name, ignore_disabled, ignore_used) \in Under(Definition, b) \cup {NoApp}
<1> DEFINE Inside(sub) == IF Nameless(sub) THEN f[sub] ELSE NoApp
           Itself(sub) == app_check_name(sub, name) /\ (apps[sub].parsed = 0 \/ ~ignore_used)
           Holds(sub) == /\ ~(apps[sub].disabled /\ ignore_disabled)
                         /\ Inside(sub) # NoApp \/ Itself(sub)
           subs == App(b).subs
           places == {i \in DOMAIN subs : Holds(subs[i])}
           first == At(subs, places, NoApp)
<1>1. FindAt(f, b, name, ignore_disabled, ignore_used) =
        IF first # NoApp /\ Inside(first) # NoApp THEN Inside(first) ELSE first
  BY DEF FindAt, First
<1>2. IsSequence(subs) /\ Range(subs) = SubsIn(Definition, b)
  BY Now, TreeIs DEF SubsIn
<1>3. first = NoApp \/ first \in SubsIn(Definition, b)
  <2>1. places \subseteq DOMAIN subs
    OBVIOUS
  <2> HIDE DEF places
  <2>2. \/ places = {} /\ first = NoApp
        \/ \E i \in places : first = subs[i]
    BY <1>2, <2>1, AtFacts
  <2> QED
    BY <1>2, <2>1, <2>2 DEF Range
<1> HIDE DEF first
<1>4. CASE first = NoApp
  BY <1>1, <1>4
<1>5. CASE first \in SubsIn(Definition, b)
  <2>1. first \in Under(Definition, b) /\ Under(Definition, first) \subseteq Under(Definition, b)
    BY <1>5, Now, UnderSub
  <2>2. Inside(first) \in Under(Definition, first) \cup {NoApp}
    BY <1>5
  <2> QED
    BY <1>1, <2>1, <2>2
<1> QED
  BY <1>3, <1>4, <1>5

(* One unfolding depends on the apps listed only.                          *)
LEMMA FindAgrees ==
  ASSUME cli \in DOMAIN Interfaces, NEW b \in Apps, NEW f, NEW g,
         NEW name, NEW ignore_disabled, NEW ignore_used,
         \A c \in SubsIn(Definition, b) : f[c] = g[c]
  PROVE  FindAt(f, b, name, ignore_disabled, ignore_used) = FindAt(g, b, name, ignore_disabled, ignore_used)
<1> DEFINE Inside(h, sub) == IF Nameless(sub) THEN h[sub] ELSE NoApp
           Itself(sub) == app_check_name(sub, name) /\ (apps[sub].parsed = 0 \/ ~ignore_used)
           Holds(h, sub) == /\ ~(apps[sub].disabled /\ ignore_disabled)
                            /\ Inside(h, sub) # NoApp \/ Itself(sub)
           subs == App(b).subs
           places(h) == {i \in DOMAIN subs : Holds(h, subs[i])}
           first(h) == At(subs, places(h), NoApp)
<1>1. \A h \in {f, g} : FindAt(h, b, name, ignore_disabled, ignore_used) =
        IF first(h) # NoApp /\ Inside(h, first(h)) # NoApp THEN Inside(h, first(h)) ELSE first(h)
  BY DEF FindAt, First
<1>2. IsSequence(subs) /\ Range(subs) = SubsIn(Definition, b)
  BY Now, TreeIs DEF SubsIn
<1>3. \A i \in DOMAIN subs : Inside(f, subs[i]) = Inside(g, subs[i])
  BY <1>2 DEF Range
<1>4. places(f) = places(g)
  BY <1>3
<1>5. first(f) = first(g)
  BY <1>4
<1>6. first(f) = NoApp \/ first(f) \in SubsIn(Definition, b)
  <2>1. places(f) \subseteq DOMAIN subs
    OBVIOUS
  <2> HIDE DEF places
  <2>2. \/ places(f) = {} /\ first(f) = NoApp
        \/ \E i \in places(f) : first(f) = subs[i]
    BY <1>2, <2>1, AtFacts
  <2> QED
    BY <1>2, <2>1, <2>2 DEF Range
<1> HIDE DEF first
<1> QED
  BY <1>1, <1>5, <1>6

(* _find_subcommand finds an app under the one asked, or none.             *)
LEMMA FindSubcommand ==
  ASSUME cli \in DOMAIN Interfaces, NEW a \in Apps, NEW name, NEW ignore_disabled, NEW ignore_used
  PROVE  find_subcommand(a, name, ignore_disabled, ignore_used) \in Under(Definition, a) \cup {NoApp}
<1> DEFINE V == [b \in Apps |-> Under(Definition, b) \cup {NoApp}]
           Dep == SubsOf
           Fam == Family(Apps, V)
           Body(f, b) == FindAt(f, b, name, ignore_disabled, ignore_used)
           F == [f \in Fam |-> [b \in Apps |-> Body(f, b)]]
<1>1. /\ IsFiniteSet(Apps) /\ Grounded(Apps, Dep) /\ \A b \in Apps : Dep[b] \subseteq Apps
      /\ \A b \in Apps : V[b] # {}
  BY Now, NowGrounded
<1>2. ASSUME NEW f, NEW b \in Apps, \A c \in Dep[b] : f[c] \in V[c]
      PROVE  Body(f, b) \in V[b]
  BY <1>1, <1>2, FindType DEF SubsOf
<1>3. ASSUME NEW f, NEW g, NEW b \in Apps, \A c \in Dep[b] : f[c] = g[c]
      PROVE  Body(f, b) = Body(g, b)
  BY <1>3, FindAgrees DEF SubsOf
<1> HIDE DEF Body, V, Dep
<1>4. F \in [Fam -> Fam]
  <2> SUFFICES ASSUME NEW f \in Fam PROVE [b \in Apps |-> Body(f, b)] \in Fam
    OBVIOUS
  <2>1. \A b \in Apps : Body(f, b) \in V[b]
    BY <1>1, <1>2 DEF Family
  <2> QED
    BY <2>1 DEF Family
<1>5. \A f, g \in Fam : \A b \in Apps : (\A c \in Dep[b] \cap Apps : f[c] = g[c]) => F[f][b] = F[g][b]
  BY <1>1, <1>3
<1> HIDE DEF F
<1>6. PICK f \in Fam : F[f] = f
  <2>1. Unfolding(Apps, Dep, V, F)
    BY <1>1, <1>4, <1>5 DEF Unfolding
  <2> QED
    BY <2>1, RecursionDefined
<1>7. IsFind(f, name, ignore_disabled, ignore_used)
  BY <1>6 DEF IsFind, Body, F
<1> DEFINE g == CHOOSE h : IsFind(h, name, ignore_disabled, ignore_used)
<1>8. IsFind(g, name, ignore_disabled, ignore_used)
  BY <1>7
<1> HIDE DEF g
<1>9. \A b \in Apps : g[b] = Body(g, b)
  BY <1>8 DEF IsFind, Body
<1> DEFINE P == {b \in Apps : g[b] \in V[b]}
<1>10. Apps \subseteq P
  <2>1. \A b \in Apps : Dep[b] \cap Apps \subseteq P => b \in P
    BY <1>1, <1>2, <1>9
  <2> HIDE DEF P
  <2> QED
    BY <1>1, <2>1, GroundedInduction
<1> QED
  BY <1>10, FindIs DEF g, V

(* get_option_no_throw, unfolded once: it finds an option of the           *)
(* definition.                                                             *)
GetAt(f, b, name) ==
  LET own == First(App(b).options, LAMBDA o : check_name(Opt(o), name), NoOption)
      group == First(App(b).subs, LAMBDA g : Nameless(g) /\ f[g] # NoOption, NoApp)
  IN  IF own # NoOption THEN own
      ELSE IF group # NoApp THEN f[group]
      ELSE NoOption

IsGet(f, name) == f = [b \in Apps |-> GetAt(f, b, name)]

(* get_option_no_throw is a function that solves this equation.            *)
LEMMA GetIs ==
  ASSUME NEW a, NEW name
  PROVE  get_option_no_throw(a, name) = (CHOOSE f : IsGet(f, name))[a]
BY DEF get_option_no_throw, IsGet, GetAt

AnyOption == DOMAIN Definition.options \cup {NoOption}

(* The first group and the first option that pass.                         *)
LEMMA FirstSub ==
  ASSUME cli \in DOMAIN Interfaces, NEW b \in Apps, NEW places, places \subseteq DOMAIN App(b).subs
  PROVE  LET sub == At(App(b).subs, places, NoApp) IN
         \/ sub = NoApp
         \/ sub \in SubsIn(Definition, b) /\ sub \in Apps /\ \E i \in places : sub = App(b).subs[i]
<1> DEFINE subs == App(b).subs
           sub == At(subs, places, NoApp)
<1>1. IsSequence(subs) /\ Range(subs) = SubsIn(Definition, b) /\ SubsIn(Definition, b) \subseteq Apps
  BY Now, TreeIs DEF SubsIn
<1>2. \/ places = {} /\ sub = NoApp
      \/ \E i \in places : sub = subs[i]
  BY <1>1, AtFacts
<1> QED
  BY <1>1, <1>2 DEF Range

(* The first of some options of an app is one of its options.              *)
LEMMA FirstOption ==
  ASSUME cli \in DOMAIN Interfaces, NEW b \in Apps, NEW places, places \subseteq DOMAIN App(b).options
  PROVE  LET o == At(App(b).options, places, NoOption) IN
         o = NoOption \/ (o \in OptionsIn(Definition, b) /\ o \in DOMAIN Definition.options)
<1> DEFINE opts == App(b).options
           o == At(opts, places, NoOption)
<1>1. /\ IsSequence(opts) /\ Range(opts) = OptionsIn(Definition, b)
      /\ OptionsIn(Definition, b) \subseteq DOMAIN Definition.options
  BY Now, TreeIs DEF OptionsIn
<1>2. \/ places = {} /\ o = NoOption
      \/ \E i \in places : o = opts[i]
  BY <1>1, AtFacts
<1> QED
  BY <1>1, <1>2 DEF Range

(* One unfolding finds an option of the definition, or none, if what it is *)
(* made of does.                                                           *)
LEMMA GetType ==
  ASSUME cli \in DOMAIN Interfaces, NEW b \in Apps, NEW f, NEW name,
         \A c \in SubsIn(Definition, b) : f[c] \in AnyOption
  PROVE  GetAt(f, b, name) \in AnyOption
<1> DEFINE ownplaces == {i \in DOMAIN App(b).options : check_name(Opt(App(b).options[i]), name)}
           places == {i \in DOMAIN App(b).subs : Nameless(App(b).subs[i]) /\ f[App(b).subs[i]] # NoOption}
           own == At(App(b).options, ownplaces, NoOption)
           group == At(App(b).subs, places, NoApp)
<1>1. GetAt(f, b, name) = IF own # NoOption THEN own
                          ELSE IF group # NoApp THEN f[group] ELSE NoOption
  BY DEF GetAt, First
<1>2. own \in AnyOption
  <2>1. ownplaces \subseteq DOMAIN App(b).options
    OBVIOUS
  <2> HIDE DEF ownplaces
  <2> QED
    BY <2>1, FirstOption DEF AnyOption
<1>3. group = NoApp \/ group \in SubsIn(Definition, b)
  <2>1. places \subseteq DOMAIN App(b).subs
    OBVIOUS
  <2> HIDE DEF places
  <2> QED
    BY <2>1, FirstSub
<1> HIDE DEF own, group
<1> QED
  BY <1>1, <1>2, <1>3 DEF AnyOption

(* One unfolding depends on the apps listed only.                          *)
LEMMA GetAgrees ==
  ASSUME cli \in DOMAIN Interfaces, NEW b \in Apps, NEW f, NEW g, NEW name,
         \A c \in SubsIn(Definition, b) : f[c] = g[c]
  PROVE  GetAt(f, b, name) = GetAt(g, b, name)
<1> DEFINE own == First(App(b).options, LAMBDA o : check_name(Opt(o), name), NoOption)
           places(h) == {i \in DOMAIN App(b).subs : Nameless(App(b).subs[i]) /\ h[App(b).subs[i]] # NoOption}
           group(h) == At(App(b).subs, places(h), NoApp)
<1>1. \A h \in {f, g} : GetAt(h, b, name) = IF own # NoOption THEN own
                          ELSE IF group(h) # NoApp THEN h[group(h)] ELSE NoOption
  BY DEF GetAt, First
<1>2. Range(App(b).subs) = SubsIn(Definition, b)
  BY Now DEF SubsIn
<1>3. \A i \in DOMAIN App(b).subs : f[App(b).subs[i]] = g[App(b).subs[i]]
  BY <1>2 DEF Range
<1>4. places(f) = places(g)
  BY <1>3
<1>5. group(f) = group(g)
  BY <1>4
<1>6. group(f) = NoApp \/ group(f) \in SubsIn(Definition, b)
  <2>1. places(f) \subseteq DOMAIN App(b).subs
    OBVIOUS
  <2> HIDE DEF places
  <2> QED
    BY <2>1, FirstSub
<1> HIDE DEF own, group
<1> QED
  BY <1>1, <1>5, <1>6

(* get_option_no_throw finds an option of the definition, or none.         *)
LEMMA GetOption ==
  ASSUME cli \in DOMAIN Interfaces, NEW a \in Apps, NEW name
  PROVE  get_option_no_throw(a, name) \in AnyOption
<1> DEFINE D == Apps
           V == [b \in Apps |-> AnyOption]
           Dep == SubsOf
           Fam == Family(D, V)
           Body(f, b) == GetAt(f, b, name)
           F == [f \in Fam |-> [b \in D |-> Body(f, b)]]
<1>1. /\ IsFiniteSet(D) /\ Grounded(D, Dep) /\ \A b \in D : Dep[b] \subseteq D
      /\ \A b \in D : V[b] # {}
  BY Now, NowGrounded DEF AnyOption
<1>2. ASSUME NEW f, NEW b \in D, \A c \in Dep[b] : f[c] \in V[c]
      PROVE  Body(f, b) \in V[b]
  BY <1>1, <1>2, GetType DEF SubsOf
<1>3. ASSUME NEW f, NEW g, NEW b \in D, \A c \in Dep[b] : f[c] = g[c]
      PROVE  Body(f, b) = Body(g, b)
  BY <1>3, GetAgrees DEF SubsOf
<1> HIDE DEF Body, V, Dep, D
<1>4. F \in [Fam -> Fam]
  <2> SUFFICES ASSUME NEW f \in Fam PROVE [b \in D |-> Body(f, b)] \in Fam
    OBVIOUS
  <2>1. \A b \in D : Body(f, b) \in V[b]
    BY <1>1, <1>2 DEF Family
  <2> QED
    BY <2>1 DEF Family
<1>5. \A f, g \in Fam : \A b \in D : (\A c \in Dep[b] \cap D : f[c] = g[c]) => F[f][b] = F[g][b]
  BY <1>1, <1>3
<1> HIDE DEF F
<1>6. PICK f \in Fam : F[f] = f
  <2>1. Unfolding(D, Dep, V, F)
    BY <1>1, <1>4, <1>5 DEF Unfolding
  <2> QED
    BY <2>1, RecursionDefined
<1>7. IsGet(f, name)
  BY <1>6 DEF IsGet, Body, F, D
<1> DEFINE g == CHOOSE h : IsGet(h, name)
<1>8. IsGet(g, name)
  BY <1>7
<1> HIDE DEF g
<1>9. \A b \in D : g[b] = Body(g, b)
  BY <1>8 DEF IsGet, Body, D
<1> DEFINE P == {b \in D : g[b] \in V[b]}
<1>10. D \subseteq P
  <2>1. \A b \in D : Dep[b] \cap D \subseteq P => b \in P
    BY <1>1, <1>2, <1>9
  <2> HIDE DEF P
  <2> QED
    BY <1>1, <2>1, GroundedInduction
<1> QED
  BY <1>10, GetIs DEF g, V, D

(* Every app but the root is under the root.                               *)
LEMMA UnderRoot ==
  ASSUME NEW d, IsTree(d)
  PROVE  DOMAIN d.apps = {d.root} \cup Under(d, d.root)
<1> DEFINE S == {a \in DOMAIN d.apps : a # d.root /\ a \notin Under(d, d.root)}
<1>0. d.root \in DOMAIN d.apps
  BY DEF IsTree
<1>1. ASSUME S # {} PROVE FALSE
  <2>1. PICK a \in S : \A b \in S : a \notin Under(d, b)
    <3>1. S \in SUBSET DOMAIN d.apps
      OBVIOUS
    <3> HIDE DEF S
    <3> QED
      BY <1>1, <3>1, Topmost
  <2> DEFINE p == d.apps[a].parent
  <2>2. p \in DOMAIN d.apps /\ a \in SubsIn(d, p)
    BY ParentIs
  <2>3. a \in Under(d, p)
    BY <2>2, UnderFacts
  <2>4. CASE p = d.root
    BY <2>3, <2>4
  <2>5. CASE p # d.root
    <3>1. p \in Under(d, d.root)
      BY <2>1, <2>2, <2>3, <2>5
    <3> QED
      BY <1>0, <2>2, <3>1, UnderFacts DEF Closed
  <2> QED
    BY <2>4, <2>5
<1>2. Under(d, d.root) \subseteq DOMAIN d.apps
  BY <1>0, UnderFacts
<1> QED
  BY <1>0, <1>1, <1>2

(* _get_fallthrough_parent, unfolded once: it ends at an app above that is *)
(* the root or has a name.                                                 *)
ParentAt(f, b) ==
  LET parent == App(b).parent
  IN  IF Nameless(parent) /\ ~IsRoot(parent) THEN f[parent] ELSE parent

IsParents(f) == f = [b \in Apps \ {Root} |-> ParentAt(f, b)]

(* get_fallthrough_parent is a function that solves this equation.         *)
LEMMA ParentsAre == \A a : get_fallthrough_parent(a) = (CHOOSE f : IsParents(f))[a]
BY DEF get_fallthrough_parent, IsParents, ParentAt

(* The app without a parent is the root, and every other has a parent.     *)
LEMMA RootIs ==
  ASSUME cli \in DOMAIN Interfaces, NEW a \in Apps
  PROVE  /\ IsRoot(a) <=> a = Root
         /\ a # Root => App(a).parent \in Apps /\ a \in Under(Definition, App(a).parent)
<1>1. IsTree(Definition) /\ a \in DOMAIN Definition.apps
  BY Now
<1>2. /\ a = Definition.root <=> Definition.apps[a].parent = NoApp
      /\ a # Definition.root => /\ Definition.apps[a].parent \in DOMAIN Definition.apps
                                /\ a \in SubsIn(Definition, Definition.apps[a].parent)
  BY <1>1, ParentIs
<1> QED
  BY <1>1, <1>2, Now, UnderFacts DEF IsRoot

FallthroughParents(b) == {p \in Apps : p = Root \/ (~Nameless(p) /\ b \in Under(Definition, p))}

(* One unfolding gives an app above that is the root or has a name, if     *)
(* that of its parent does.                                                *)
LEMMA ParentType ==
  ASSUME cli \in DOMAIN Interfaces, NEW b \in Apps \ {Root}, NEW f,
         \A c \in {App(b).parent} \ {Root} : f[c] \in FallthroughParents(c)
  PROVE  ParentAt(f, b) \in FallthroughParents(b)
<1> DEFINE p == App(b).parent
<1>1. p \in Apps /\ b \in Under(Definition, p) /\ (IsRoot(p) <=> p = Root)
  BY RootIs
<1>2. CASE Nameless(p) /\ ~IsRoot(p)
  <2>1. f[p] \in FallthroughParents(p)
    BY <1>1, <1>2
  <2>2. ASSUME p \in Under(Definition, f[p]), f[p] \in Apps
        PROVE  b \in Under(Definition, f[p])
    <3>1. /\ Closed(Definition, Under(Definition, f[p])) /\ b \in SubsIn(Definition, p)
      BY <2>2, Now, UnderFacts, ParentIs
    <3> QED
      BY <2>2, <3>1 DEF Closed
  <2> QED
    BY <1>2, <2>1, <2>2 DEF ParentAt, FallthroughParents
<1>3. CASE ~(Nameless(p) /\ ~IsRoot(p))
  BY <1>1, <1>3 DEF ParentAt, FallthroughParents
<1> QED
  BY <1>2, <1>3

(* One unfolding depends on the parent only.                               *)
LEMMA ParentAgrees ==
  ASSUME cli \in DOMAIN Interfaces, NEW b \in Apps \ {Root}, NEW f, NEW g,
         \A c \in {App(b).parent} \ {Root} : f[c] = g[c]
  PROVE  ParentAt(f, b) = ParentAt(g, b)
BY RootIs DEF ParentAt

ParentOf == [b \in Apps \ {Root} |-> {App(b).parent} \ {Root}]

(* A recursion from an app to its parent ends.                             *)
LEMMA ParentsGrounded ==
  ASSUME cli \in DOMAIN Interfaces
  PROVE  /\ IsFiniteSet(Apps \ {Root}) /\ Grounded(Apps \ {Root}, ParentOf)
         /\ \A b \in Apps \ {Root} : ParentOf[b] \subseteq Apps \ {Root}
<1>1. ASSUME NEW S \in SUBSET (Apps \ {Root}), S # {}
      PROVE  \E a \in S : ParentOf[a] \cap S = {}
  <2>1. PICK a \in S : \A b \in S : a \notin Under(Definition, b)
    BY <1>1, Now, Topmost
  <2>2. a \in Under(Definition, App(a).parent)
    BY RootIs
  <2> QED
    BY <2>1, <2>2 DEF ParentOf
<1>2. IsFiniteSet(Apps \ {Root})
  BY Now, FS_Difference
<1>3. \A b \in Apps \ {Root} : ParentOf[b] \subseteq Apps \ {Root}
  BY RootIs DEF ParentOf
<1> QED
  BY <1>1, <1>2, <1>3 DEF Grounded

(* _get_fallthrough_parent gives an app above that is the root or has a    *)
(* name.                                                                   *)
LEMMA FallthroughParent ==
  ASSUME cli \in DOMAIN Interfaces, NEW a \in Apps \ {Root}
  PROVE  get_fallthrough_parent(a) \in FallthroughParents(a)
<1> DEFINE D == Apps \ {Root}
           V == [b \in Apps \ {Root} |-> FallthroughParents(b)]
           Dep == ParentOf
           Fam == Family(D, V)
           Body(f, b) == ParentAt(f, b)
           F == [f \in Fam |-> [b \in D |-> Body(f, b)]]
<1>1. /\ IsFiniteSet(D) /\ Grounded(D, Dep) /\ \A b \in D : Dep[b] \subseteq D
      /\ \A b \in D : V[b] # {}
  BY ParentsGrounded, Now DEF FallthroughParents
<1>2. ASSUME NEW f, NEW b \in D, \A c \in Dep[b] : f[c] \in V[c]
      PROVE  Body(f, b) \in V[b]
  BY <1>1, <1>2, ParentType DEF ParentOf
<1>3. ASSUME NEW f, NEW g, NEW b \in D, \A c \in Dep[b] : f[c] = g[c]
      PROVE  Body(f, b) = Body(g, b)
  BY <1>3, ParentAgrees DEF ParentOf
<1> HIDE DEF Body, V, Dep, D
<1>4. F \in [Fam -> Fam]
  <2> SUFFICES ASSUME NEW f \in Fam PROVE [b \in D |-> Body(f, b)] \in Fam
    OBVIOUS
  <2>1. \A b \in D : Body(f, b) \in V[b]
    BY <1>1, <1>2 DEF Family
  <2> QED
    BY <2>1 DEF Family
<1>5. \A f, g \in Fam : \A b \in D : (\A c \in Dep[b] \cap D : f[c] = g[c]) => F[f][b] = F[g][b]
  BY <1>1, <1>3
<1> HIDE DEF F
<1>6. PICK f \in Fam : F[f] = f
  <2>1. Unfolding(D, Dep, V, F)
    BY <1>1, <1>4, <1>5 DEF Unfolding
  <2> QED
    BY <2>1, RecursionDefined
<1>7. IsParents(f)
  BY <1>6 DEF IsParents, Body, F, D
<1> DEFINE g == CHOOSE h : IsParents(h)
<1>8. IsParents(g)
  BY <1>7
<1> HIDE DEF g
<1>9. \A b \in D : g[b] = Body(g, b)
  BY <1>8 DEF IsParents, Body, D
<1> DEFINE P == {b \in D : g[b] \in V[b]}
<1>10. D \subseteq P
  <2>1. \A b \in D : Dep[b] \cap D \subseteq P => b \in P
    BY <1>1, <1>2, <1>9
  <2> HIDE DEF P
  <2> QED
    BY <1>1, <2>1, GroundedInduction
<1> QED
  BY <1>10, ParentsAre DEF g, V, D
-----------------------------------------------------------------------------
(* The places an argument may have: an option is one of its app's, and a   *)
(* subcommand is not the root.                                             *)
Places ==
  {p \in [kind : {"option", "subcommand", "missing", "extras", "leave"},
          app : Apps \cup {NoApp}, option : AnyOption, through : Seq(Apps)] :
     /\ p.kind # "leave" => p.app \in Apps
     /\ p.kind = "option" => p.option \in OptionsIn(Definition, p.app)
     /\ p.kind = "subcommand" => p.app # Root}

(* The places that PlaceOfPositional is made of.                           *)
LEMMA PlacesAre ==
  /\ Nowhere \in Places
  /\ \A a \in Apps : \A o \in OptionsIn(Definition, a) : o \in AnyOption => Place("option", a, o) \in Places
  /\ \A a \in Apps \ {Root} : Place("subcommand", a, NoOption) \in Places
  /\ \A a \in Apps : /\ Place("missing", a, NoOption) \in Places
                     /\ Place("extras", a, NoOption) \in Places
  /\ \A g \in Apps : \A p \in Places : Through(g, p) \in Places
<1>1. \A g \in Apps : \A p \in Places : Through(g, p) \in Places
  <2> SUFFICES ASSUME NEW g \in Apps, NEW p \in Places PROVE Through(g, p) \in Places
    OBVIOUS
  <2>1. Append(p.through, g) \in Seq(Apps)
    BY DEF Places
  <2> QED
    BY <2>1 DEF Places, Through
<1>2. <<>> \in Seq(Apps)
  OBVIOUS
<1> QED
  BY <1>1, <1>2 DEF Places, Place, Nowhere, AnyOption

(* Which other apps the place of an argument depends on.                   *)
PlaceDep ==
  [b \in Apps |-> {g \in SubsIn(Definition, b) : Nameless(g)}
                 \cup IF b # Root /\ ~Nameless(b) THEN {get_fallthrough_parent(b)} ELSE {}]

(* The recursion of _parse_arg and _parse_positional, down into groups and *)
(* up to the fallthrough parent, ends: apps that fall through are looked   *)
(* at from below, and then the groups of one app.                          *)
LEMMA PlaceGrounded ==
  ASSUME cli \in DOMAIN Interfaces
  PROVE  Grounded(Apps, PlaceDep) /\ \A b \in Apps : PlaceDep[b] \subseteq Apps
<1>1. /\ \A b \in Apps : SubsIn(Definition, b) \subseteq Apps \ {Root}
      /\ \A b \in Apps \ {Root} : /\ get_fallthrough_parent(b) \in Apps
                                  /\ get_fallthrough_parent(b) = Root \/ ~Nameless(get_fallthrough_parent(b))
                                  /\ b \in Under(Definition, get_fallthrough_parent(b))
  <2>1. \A b \in Apps : SubsIn(Definition, b) \subseteq Apps \ {Root}
    BY Now, TreeIs
  <2>2. \A b \in Apps \ {Root} : b \in Under(Definition, Root)
    BY Now, UnderRoot
  <2> QED
    BY <2>1, <2>2, FallthroughParent DEF FallthroughParents
<1>2. ASSUME NEW S \in SUBSET Apps, S # {}
      PROVE  \E a \in S : PlaceDep[a] \cap S = {}
  <2> DEFINE N == {x \in S : Nameless(x) /\ x # Root}
  <2>1. CASE N # {}
    <3>1. PICK x \in N : SubsOf[x] \cap N = {}
      <4>1. N \in SUBSET Apps
        OBVIOUS
      <4> HIDE DEF N
      <4> QED
        BY <2>1, <4>1, NowGrounded DEF Grounded
    <3> QED
      BY <1>1, <3>1 DEF PlaceDep, SubsOf
  <2>2. CASE N = {}
    <3>1. PICK x \in S : \A b \in S : x \notin Under(Definition, b)
      BY <1>2, Now, Topmost
    <3> QED
      BY <1>1, <2>2, <3>1 DEF PlaceDep
  <2> QED
    BY <2>1, <2>2
<1>3. \A b \in Apps : PlaceDep[b] \subseteq Apps
  BY <1>1 DEF PlaceDep
<1> QED
  BY <1>2, <1>3 DEF Grounded

(* PlaceOfArg *)
ArgAt(f, b, class, name) ==
  LET own == First(App(b).options, LAMBDA o : Matches(o, class, name), NoOption)
      group == First(App(b).subs, LAMBDA g : Open(g) /\ f[g].kind # "leave", NoApp)
  IN  IF own # NoOption THEN Place("option", b, own)
      ELSE IF group # NoApp THEN Through(group, f[group])
      ELSE IF ~IsRoot(b) /\ Nameless(b) THEN Nowhere
      ELSE IF ~IsRoot(b) /\ Fallthrough(b) THEN f[get_fallthrough_parent(b)]
      ELSE Place("missing", b, NoOption)

ArgPlaces == {p \in Places : p.kind \in {"option", "missing", "leave"}}

(* The places that PlaceOfArg is made of.                                  *)
LEMMA ArgPlacesAre ==
  /\ Nowhere \in ArgPlaces
  /\ \A a \in Apps : \A o \in OptionsIn(Definition, a) : o \in AnyOption => Place("option", a, o) \in ArgPlaces
  /\ \A a \in Apps : Place("missing", a, NoOption) \in ArgPlaces
  /\ \A g \in Apps : \A p \in ArgPlaces : Through(g, p) \in ArgPlaces
<1>1. \A g \in Apps : \A p \in ArgPlaces : Through(g, p) \in ArgPlaces
  <2>1. \A g \in Apps : \A p \in Places : Through(g, p).kind = p.kind
    BY DEF Places, Through
  <2> QED
    BY <2>1, PlacesAre DEF ArgPlaces
<1> QED
  BY <1>1, PlacesAre DEF ArgPlaces, Place, Nowhere

IsArg(f, class, name) == f = [b \in Apps |-> ArgAt(f, b, class, name)]

(* PlaceOfArg is a function that solves this equation.                     *)
LEMMA ArgIs ==
  ASSUME NEW a, NEW class, NEW name
  PROVE  PlaceOfArg(a, class, name) = (CHOOSE f : IsArg(f, class, name))[a]
BY DEF PlaceOfArg, IsArg, ArgAt

(* One unfolding gives a place, if what it is made of does.                *)
LEMMA ArgType ==
  ASSUME cli \in DOMAIN Interfaces, NEW b \in Apps, NEW f, NEW class, NEW name,
         \A c \in PlaceDep[b] : f[c] \in ArgPlaces
  PROVE  ArgAt(f, b, class, name) \in ArgPlaces
<1> DEFINE ownplaces == {i \in DOMAIN App(b).options : Matches(App(b).options[i], class, name)}
           places == {i \in DOMAIN App(b).subs : Open(App(b).subs[i]) /\ f[App(b).subs[i]].kind # "leave"}
           own == At(App(b).options, ownplaces, NoOption)
           group == At(App(b).subs, places, NoApp)
<1>1. ArgAt(f, b, class, name) =
        IF own # NoOption THEN Place("option", b, own)
        ELSE IF group # NoApp THEN Through(group, f[group])
        ELSE IF ~IsRoot(b) /\ Nameless(b) THEN Nowhere
        ELSE IF ~IsRoot(b) /\ Fallthrough(b) THEN f[get_fallthrough_parent(b)]
        ELSE Place("missing", b, NoOption)
  BY DEF ArgAt, First
<1>2. own = NoOption \/ (own \in OptionsIn(Definition, b) /\ own \in AnyOption)
  <2>1. ownplaces \subseteq DOMAIN App(b).options
    OBVIOUS
  <2> HIDE DEF ownplaces
  <2> QED
    BY <2>1, FirstOption DEF AnyOption
<1>3. group = NoApp \/ (group \in SubsIn(Definition, b) /\ group \in Apps /\ Nameless(group))
  <2>1. /\ places \subseteq DOMAIN App(b).subs
        /\ \A i \in places : Nameless(App(b).subs[i])
    BY DEF Open
  <2> HIDE DEF places
  <2> QED
    BY <2>1, FirstSub
<1> HIDE DEF own, group
<1>4. group # NoApp => group \in Apps /\ f[group] \in ArgPlaces
  BY <1>3 DEF PlaceDep
<1>5. ~IsRoot(b) /\ Fallthrough(b) => f[get_fallthrough_parent(b)] \in ArgPlaces
  BY RootIs DEF PlaceDep, Fallthrough, IsSubgroup
<1> QED
  BY <1>1, <1>2, <1>4, <1>5, ArgPlacesAre

(* One unfolding depends on the groups listed and the fallthrough parent.  *)
LEMMA ArgAgrees ==
  ASSUME cli \in DOMAIN Interfaces, NEW b \in Apps, NEW f, NEW g, NEW class, NEW name,
         \A c \in PlaceDep[b] : f[c] = g[c]
  PROVE  ArgAt(f, b, class, name) = ArgAt(g, b, class, name)
<1> DEFINE own == First(App(b).options, LAMBDA o : Matches(o, class, name), NoOption)
           places(h) == {i \in DOMAIN App(b).subs : Open(App(b).subs[i]) /\ h[App(b).subs[i]].kind # "leave"}
           group(h) == At(App(b).subs, places(h), NoApp)
<1>1. \A h \in {f, g} : ArgAt(h, b, class, name) =
        IF own # NoOption THEN Place("option", b, own)
        ELSE IF group(h) # NoApp THEN Through(group(h), h[group(h)])
        ELSE IF ~IsRoot(b) /\ Nameless(b) THEN Nowhere
        ELSE IF ~IsRoot(b) /\ Fallthrough(b) THEN h[get_fallthrough_parent(b)]
        ELSE Place("missing", b, NoOption)
  BY DEF ArgAt, First
<1>2. Range(App(b).subs) = SubsIn(Definition, b)
  BY Now DEF SubsIn
<1>3. \A i \in DOMAIN App(b).subs : Open(App(b).subs[i]) => f[App(b).subs[i]] = g[App(b).subs[i]]
  BY <1>2 DEF Range, PlaceDep, Open
<1>4. places(f) = places(g)
  BY <1>3
<1>5. group(f) = group(g)
  BY <1>4
<1>6. group(f) = NoApp \/ (group(f) \in SubsIn(Definition, b) /\ Nameless(group(f)))
  <2>1. /\ places(f) \subseteq DOMAIN App(b).subs
        /\ \A i \in places(f) : Nameless(App(b).subs[i])
    BY DEF Open
  <2> HIDE DEF places
  <2> QED
    BY <2>1, FirstSub
<1> HIDE DEF own, group
<1>7. group(f) # NoApp => f[group(f)] = g[group(f)]
  BY <1>6 DEF PlaceDep
<1>8. ~IsRoot(b) /\ Fallthrough(b) => f[get_fallthrough_parent(b)] = g[get_fallthrough_parent(b)]
  BY RootIs DEF PlaceDep, Fallthrough, IsSubgroup
<1> QED
  BY <1>1, <1>5, <1>7, <1>8

(* _parse_arg has a place for every argument: an option of some app, the   *)
(* list of those left over, or the app leaves it.                          *)
LEMMA ArgPlace ==
  ASSUME cli \in DOMAIN Interfaces, NEW a \in Apps, NEW class, NEW name
  PROVE  PlaceOfArg(a, class, name) \in ArgPlaces
<1> DEFINE D == Apps
           V == [b \in Apps |-> ArgPlaces]
           Dep == PlaceDep
           Fam == Family(D, V)
           Body(f, b) == ArgAt(f, b, class, name)
           F == [f \in Fam |-> [b \in D |-> Body(f, b)]]
<1>1. /\ IsFiniteSet(D) /\ Grounded(D, Dep) /\ \A b \in D : Dep[b] \subseteq D
      /\ \A b \in D : V[b] # {}
  BY Now, PlaceGrounded, ArgPlacesAre
<1>2. ASSUME NEW f, NEW b \in D, \A c \in Dep[b] : f[c] \in V[c]
      PROVE  Body(f, b) \in V[b]
  BY <1>1, <1>2, ArgType
<1>3. ASSUME NEW f, NEW g, NEW b \in D, \A c \in Dep[b] : f[c] = g[c]
      PROVE  Body(f, b) = Body(g, b)
  BY <1>3, ArgAgrees
<1> HIDE DEF Body, V, Dep, D
<1>4. F \in [Fam -> Fam]
  <2> SUFFICES ASSUME NEW f \in Fam PROVE [b \in D |-> Body(f, b)] \in Fam
    OBVIOUS
  <2>1. \A b \in D : Body(f, b) \in V[b]
    BY <1>1, <1>2 DEF Family
  <2> QED
    BY <2>1 DEF Family
<1>5. \A f, g \in Fam : \A b \in D : (\A c \in Dep[b] \cap D : f[c] = g[c]) => F[f][b] = F[g][b]
  BY <1>1, <1>3
<1> HIDE DEF F
<1>6. PICK f \in Fam : F[f] = f
  <2>1. Unfolding(D, Dep, V, F)
    BY <1>1, <1>4, <1>5 DEF Unfolding
  <2> QED
    BY <2>1, RecursionDefined
<1>7. IsArg(f, class, name)
  BY <1>6 DEF IsArg, Body, F, D
<1> DEFINE g == CHOOSE h : IsArg(h, class, name)
<1>8. IsArg(g, class, name)
  BY <1>7
<1> HIDE DEF g
<1>9. \A b \in D : g[b] = Body(g, b)
  BY <1>8 DEF IsArg, Body, D
<1> DEFINE P == {b \in D : g[b] \in V[b]}
<1>10. D \subseteq P
  <2>1. \A b \in D : Dep[b] \cap D \subseteq P => b \in P
    BY <1>1, <1>2, <1>9
  <2> HIDE DEF P
  <2> QED
    BY <1>1, <2>1, GroundedInduction
<1> QED
  BY <1>10, ArgIs DEF g, V, D

(* PlaceOfPositional *)
PositionalAt(f, at, str, left) ==
  LET b == at[1]
      halted == at[2]
      urgent == First(App(b).options, LAMBDA o : Urgent(b, o, str, left), NoOption)
      hungry == First(App(b).options, LAMBDA o : Hungry(b, o, str), NoOption)
      group == First(App(b).subs,
                     LAMBDA g : Open(g) /\ f[<<g, FALSE>>].kind # "leave", NoApp)
      own == find_subcommand(b, str, TRUE, FALSE)
      top == IF IsRoot(b) THEN b ELSE get_fallthrough_parent(b)
      wide == find_subcommand(top, str, TRUE, FALSE)
  IN  IF urgent # NoOption THEN Place("option", b, urgent)
      ELSE IF hungry # NoOption THEN Place("option", b, hungry)
      ELSE IF group # NoApp THEN Through(group, f[<<group, FALSE>>])
      ELSE IF ~IsRoot(b) /\ Fallthrough(b)
        THEN f[<<get_fallthrough_parent(b), App(b).parse_complete>>]
      ELSE IF own # NoApp /\ Room(b)
        THEN IF halted THEN Nowhere ELSE Place("subcommand", own, NoOption)
      ELSE IF wide # NoApp /\ Room(App(wide).parent) THEN Nowhere
      ELSE IF App(b).positionals_at_end THEN Place("extras", b, NoOption)
      ELSE IF ~IsRoot(b) /\ Nameless(b) THEN Nowhere
      ELSE Place("missing", b, NoOption)

Ats == Apps \X BOOLEAN
IsPositional(f, str, left) == f = [at \in Ats |-> PositionalAt(f, at, str, left)]

(* PlaceOfPositional is a function that solves this equation.              *)
LEMMA PositionalIs ==
  ASSUME NEW a, NEW str, NEW left, NEW halt
  PROVE  PlaceOfPositional(a, str, left, halt) = (CHOOSE f : IsPositional(f, str, left))[<<a, halt>>]
BY DEF PlaceOfPositional, IsPositional, PositionalAt, Ats

AtDep == [at \in Ats |-> PlaceDep[at[1]] \X BOOLEAN]

(* The recursion ends with the flag haltOnSubcommand beside the app, too.  *)
LEMMA AtGrounded ==
  ASSUME cli \in DOMAIN Interfaces
  PROVE  /\ IsFiniteSet(Ats) /\ Grounded(Ats, AtDep)
         /\ \A at \in Ats : AtDep[at] \subseteq Ats
<1>1. ASSUME NEW S \in SUBSET Ats, S # {}
      PROVE  \E at \in S : AtDep[at] \cap S = {}
  <2> DEFINE X == {at[1] : at \in S}
  <2>1. X \in SUBSET Apps /\ X # {}
    BY <1>1 DEF Ats
  <2> HIDE DEF X
  <2>2. PICK x \in X : PlaceDep[x] \cap X = {}
    BY <2>1, PlaceGrounded DEF Grounded
  <2>3. PICK at \in S : at[1] = x
    BY DEF X
  <2>4. \A c \in S : c[1] \in X
    BY DEF X
  <2> QED
    BY <2>2, <2>3, <2>4 DEF AtDep
<1>2. IsFiniteSet(Ats)
  <2>1. IsFiniteSet(BOOLEAN)
    <3>1. BOOLEAN = {TRUE, FALSE}
      OBVIOUS
    <3>2. IsFiniteSet({TRUE}) /\ IsFiniteSet({FALSE})
      BY FS_Singleton
    <3>3. IsFiniteSet({TRUE} \cup {FALSE}) /\ {TRUE} \cup {FALSE} = {TRUE, FALSE}
      BY <3>2, FS_Union
    <3> QED
      BY <3>1, <3>3
  <2> QED
    BY <2>1, Now, FS_Product DEF Ats
<1>3. \A at \in Ats : AtDep[at] \subseteq Ats
  BY PlaceGrounded DEF AtDep, Ats
<1> QED
  BY <1>1, <1>2, <1>3 DEF Grounded

(* One unfolding gives a place, if what it is made of does.                *)
LEMMA PositionalType ==
  ASSUME cli \in DOMAIN Interfaces, NEW at \in Ats, NEW f, NEW str, NEW left,
         \A c \in AtDep[at] : f[c] \in Places
  PROVE  PositionalAt(f, at, str, left) \in Places
<1> DEFINE b == at[1]
           urgentplaces == {i \in DOMAIN App(b).options : Urgent(b, App(b).options[i], str, left)}
           hungryplaces == {i \in DOMAIN App(b).options : Hungry(b, App(b).options[i], str)}
           places == {i \in DOMAIN App(b).subs :
                        Open(App(b).subs[i]) /\ f[<<App(b).subs[i], FALSE>>].kind # "leave"}
           urgent == At(App(b).options, urgentplaces, NoOption)
           hungry == At(App(b).options, hungryplaces, NoOption)
           group == At(App(b).subs, places, NoApp)
           own == find_subcommand(b, str, TRUE, FALSE)
           wide == find_subcommand(IF IsRoot(b) THEN b ELSE get_fallthrough_parent(b), str, TRUE, FALSE)
<1>0. b \in Apps /\ at[2] \in BOOLEAN
  BY DEF Ats
<1>1. PositionalAt(f, at, str, left) =
        IF urgent # NoOption THEN Place("option", b, urgent)
        ELSE IF hungry # NoOption THEN Place("option", b, hungry)
        ELSE IF group # NoApp THEN Through(group, f[<<group, FALSE>>])
        ELSE IF ~IsRoot(b) /\ Fallthrough(b)
          THEN f[<<get_fallthrough_parent(b), App(b).parse_complete>>]
        ELSE IF own # NoApp /\ Room(b)
          THEN IF at[2] THEN Nowhere ELSE Place("subcommand", own, NoOption)
        ELSE IF wide # NoApp /\ Room(App(wide).parent) THEN Nowhere
        ELSE IF App(b).positionals_at_end THEN Place("extras", b, NoOption)
        ELSE IF ~IsRoot(b) /\ Nameless(b) THEN Nowhere
        ELSE Place("missing", b, NoOption)
  BY DEF PositionalAt, First
<1> HIDE DEF b
<1>2. urgent = NoOption \/ (urgent \in OptionsIn(Definition, b) /\ urgent \in AnyOption)
  <2>1. urgentplaces \subseteq DOMAIN App(b).options
    OBVIOUS
  <2> HIDE DEF urgentplaces
  <2> QED
    BY <1>0, <2>1, FirstOption DEF AnyOption
<1>3. hungry = NoOption \/ (hungry \in OptionsIn(Definition, b) /\ hungry \in AnyOption)
  <2>1. hungryplaces \subseteq DOMAIN App(b).options
    OBVIOUS
  <2> HIDE DEF hungryplaces
  <2> QED
    BY <1>0, <2>1, FirstOption DEF AnyOption
<1>4. group = NoApp \/ (group \in SubsIn(Definition, b) /\ group \in Apps /\ Nameless(group))
  <2>1. /\ places \subseteq DOMAIN App(b).subs
        /\ \A i \in places : Nameless(App(b).subs[i])
    BY DEF Open
  <2> HIDE DEF places
  <2> QED
    BY <1>0, <2>1, FirstSub
<1>5. own = NoApp \/ own \in Apps \ {Root}
  <2>1. own \in Under(Definition, b) \cup {NoApp}
    BY <1>0, FindSubcommand
  <2> QED
    BY <1>0, <2>1, Now, UnderParent
<1> HIDE DEF urgent, hungry, group, own, wide
<1>6. AtDep[at] = PlaceDep[b] \X BOOLEAN
  BY DEF AtDep, b
<1>7. group # NoApp => group \in Apps /\ f[<<group, FALSE>>] \in Places
  <2>1. group # NoApp => group \in PlaceDep[b]
    BY <1>0, <1>4 DEF PlaceDep
  <2> QED
    BY <1>4, <1>6, <2>1
<1>8. ~IsRoot(b) /\ Fallthrough(b) => f[<<get_fallthrough_parent(b), App(b).parse_complete>>] \in Places
  <2>1. ~IsRoot(b) /\ Fallthrough(b) => get_fallthrough_parent(b) \in PlaceDep[b]
    BY <1>0, RootIs DEF PlaceDep, Fallthrough, IsSubgroup
  <2>2. App(b).parse_complete \in BOOLEAN
    BY <1>0, Now DEF IsTree
  <2> QED
    BY <1>6, <2>1, <2>2
<1> QED
  BY <1>0, <1>1, <1>2, <1>3, <1>5, <1>7, <1>8, PlacesAre

(* One unfolding depends on the groups listed and the fallthrough parent.  *)
LEMMA PositionalAgrees ==
  ASSUME cli \in DOMAIN Interfaces, NEW at \in Ats, NEW f, NEW g, NEW str, NEW left,
         \A c \in AtDep[at] : f[c] = g[c]
  PROVE  PositionalAt(f, at, str, left) = PositionalAt(g, at, str, left)
<1> DEFINE b == at[1]
           urgent == First(App(b).options, LAMBDA o : Urgent(b, o, str, left), NoOption)
           hungry == First(App(b).options, LAMBDA o : Hungry(b, o, str), NoOption)
           places(h) == {i \in DOMAIN App(b).subs :
                        Open(App(b).subs[i]) /\ h[<<App(b).subs[i], FALSE>>].kind # "leave"}
           group(h) == At(App(b).subs, places(h), NoApp)
           own == find_subcommand(b, str, TRUE, FALSE)
           wide == find_subcommand(IF IsRoot(b) THEN b ELSE get_fallthrough_parent(b), str, TRUE, FALSE)
<1>0. b \in Apps /\ at[2] \in BOOLEAN
  BY DEF Ats
<1>1. \A h \in {f, g} : PositionalAt(h, at, str, left) =
        IF urgent # NoOption THEN Place("option", b, urgent)
        ELSE IF hungry # NoOption THEN Place("option", b, hungry)
        ELSE IF group(h) # NoApp THEN Through(group(h), h[<<group(h), FALSE>>])
        ELSE IF ~IsRoot(b) /\ Fallthrough(b)
          THEN h[<<get_fallthrough_parent(b), App(b).parse_complete>>]
        ELSE IF own # NoApp /\ Room(b)
          THEN IF at[2] THEN Nowhere ELSE Place("subcommand", own, NoOption)
        ELSE IF wide # NoApp /\ Room(App(wide).parent) THEN Nowhere
        ELSE IF App(b).positionals_at_end THEN Place("extras", b, NoOption)
        ELSE IF ~IsRoot(b) /\ Nameless(b) THEN Nowhere
        ELSE Place("missing", b, NoOption)
  BY DEF PositionalAt, First
<1> HIDE DEF b
<1>2. Range(App(b).subs) = SubsIn(Definition, b)
  BY <1>0, Now DEF SubsIn
<1>3. AtDep[at] = PlaceDep[b] \X BOOLEAN
  BY DEF AtDep, b
<1>4. ASSUME NEW i \in DOMAIN App(b).subs, Open(App(b).subs[i])
      PROVE  f[<<App(b).subs[i], FALSE>>] = g[<<App(b).subs[i], FALSE>>]
  <2>1. App(b).subs[i] \in PlaceDep[b]
    BY <1>0, <1>2, <1>4 DEF Range, PlaceDep, Open
  <2> QED
    BY <1>3, <2>1
<1>5. places(f) = places(g)
  BY <1>4
<1>6. group(f) = group(g)
  BY <1>5
<1>7. group(f) = NoApp \/ (group(f) \in SubsIn(Definition, b) /\ Nameless(group(f)))
  <2>1. /\ places(f) \subseteq DOMAIN App(b).subs
        /\ \A i \in places(f) : Nameless(App(b).subs[i])
    BY DEF Open
  <2> HIDE DEF places
  <2> QED
    BY <1>0, <2>1, FirstSub
<1> HIDE DEF urgent, hungry, own, wide, group
<1>8. group(f) # NoApp => f[<<group(f), FALSE>>] = g[<<group(f), FALSE>>]
  <2>1. group(f) # NoApp => group(f) \in PlaceDep[b]
    BY <1>0, <1>7 DEF PlaceDep
  <2> QED
    BY <1>3, <2>1
<1>9. ~IsRoot(b) /\ Fallthrough(b) =>
        f[<<get_fallthrough_parent(b), App(b).parse_complete>>] = g[<<get_fallthrough_parent(b), App(b).parse_complete>>]
  <2>1. ~IsRoot(b) /\ Fallthrough(b) => get_fallthrough_parent(b) \in PlaceDep[b]
    BY <1>0, RootIs DEF PlaceDep, Fallthrough, IsSubgroup
  <2>2. App(b).parse_complete \in BOOLEAN
    BY <1>0, Now DEF IsTree
  <2> QED
    BY <1>3, <2>1, <2>2
<1> QED
  BY <1>1, <1>6, <1>8, <1>9

(* _parse_positional has a place for every argument.                       *)
LEMMA PositionalPlace ==
  ASSUME cli \in DOMAIN Interfaces, NEW a \in Apps, NEW halt \in BOOLEAN, NEW str, NEW left
  PROVE  PlaceOfPositional(a, str, left, halt) \in Places
<1> DEFINE D == Ats
           V == [b \in Ats |-> Places]
           Dep == AtDep
           Fam == Family(D, V)
           Body(f, b) == PositionalAt(f, b, str, left)
           F == [f \in Fam |-> [b \in D |-> Body(f, b)]]
<1>1. /\ IsFiniteSet(D) /\ Grounded(D, Dep) /\ \A b \in D : Dep[b] \subseteq D
      /\ \A b \in D : V[b] # {}
  BY AtGrounded, PlacesAre
<1>2. ASSUME NEW f, NEW b \in D, \A c \in Dep[b] : f[c] \in V[c]
      PROVE  Body(f, b) \in V[b]
  BY <1>1, <1>2, PositionalType
<1>3. ASSUME NEW f, NEW g, NEW b \in D, \A c \in Dep[b] : f[c] = g[c]
      PROVE  Body(f, b) = Body(g, b)
  BY <1>3, PositionalAgrees
<1> HIDE DEF Body, V, Dep, D
<1>4. F \in [Fam -> Fam]
  <2> SUFFICES ASSUME NEW f \in Fam PROVE [b \in D |-> Body(f, b)] \in Fam
    OBVIOUS
  <2>1. \A b \in D : Body(f, b) \in V[b]
    BY <1>1, <1>2 DEF Family
  <2> QED
    BY <2>1 DEF Family
<1>5. \A f, g \in Fam : \A b \in D : (\A c \in Dep[b] \cap D : f[c] = g[c]) => F[f][b] = F[g][b]
  BY <1>1, <1>3
<1> HIDE DEF F
<1>6. PICK f \in Fam : F[f] = f
  <2>1. Unfolding(D, Dep, V, F)
    BY <1>1, <1>4, <1>5 DEF Unfolding
  <2> QED
    BY <2>1, RecursionDefined
<1>7. IsPositional(f, str, left)
  BY <1>6 DEF IsPositional, Body, F, D
<1> DEFINE g == CHOOSE h : IsPositional(h, str, left)
<1>8. IsPositional(g, str, left)
  BY <1>7
<1> HIDE DEF g
<1>9. \A b \in D : g[b] = Body(g, b)
  BY <1>8 DEF IsPositional, Body, D
<1> DEFINE P == {b \in D : g[b] \in V[b]}
<1>10. D \subseteq P
  <2>1. \A b \in D : Dep[b] \cap D \subseteq P => b \in P
    BY <1>1, <1>2, <1>9
  <2> HIDE DEF P
  <2> QED
    BY <1>1, <2>1, GroundedInduction
<1> QED
  <2>1. <<a, halt>> \in Ats
    BY DEF Ats
  <2> QED
    BY <1>10, <2>1, PositionalIs DEF g, V, D
-----------------------------------------------------------------------------
(* Below, unfolded once: an app and what is under it.                      *)
BelowAt(f, b) == {b} \cup UNION {f[sub] : sub \in Range(App(b).subs)}
IsBelow(f) == f = [b \in Apps |-> BelowAt(f, b)]

(* Below is a function that solves this equation.                          *)
LEMMA BelowIs == \A a : Below(a) = (CHOOSE f : IsBelow(f))[a]
BY DEF Below, IsBelow, BelowAt

(* One unfolding gives an app and what is under it, if those of the apps   *)
(* listed do.                                                              *)
LEMMA BelowType ==
  ASSUME cli \in DOMAIN Interfaces, NEW b \in Apps, NEW f,
         \A c \in SubsIn(Definition, b) : f[c] \in {{c} \cup Under(Definition, c)}
  PROVE  BelowAt(f, b) \in {{b} \cup Under(Definition, b)}
<1>1. IsTree(Definition) /\ b \in DOMAIN Definition.apps /\ Range(App(b).subs) = SubsIn(Definition, b)
  BY Now DEF SubsIn
<1>2. \A c \in SubsIn(Definition, b) : f[c] = {c} \cup Under(Definition, c)
  OBVIOUS
<1>3. Under(Definition, b) = UNION {{c} \cup Under(Definition, c) : c \in SubsIn(Definition, b)}
  BY <1>1, UnderUnfolds, UnderSub
<1>4. UNION {f[sub] : sub \in SubsIn(Definition, b)} =
        UNION {{c} \cup Under(Definition, c) : c \in SubsIn(Definition, b)}
  BY <1>2
<1> QED
  BY <1>1, <1>3, <1>4 DEF BelowAt

(* One unfolding depends on the apps listed only.                          *)
LEMMA BelowAgrees ==
  ASSUME cli \in DOMAIN Interfaces, NEW b \in Apps, NEW f, NEW g,
         \A c \in SubsIn(Definition, b) : f[c] = g[c]
  PROVE  BelowAt(f, b) = BelowAt(g, b)
<1>1. Range(App(b).subs) = SubsIn(Definition, b)
  BY Now DEF SubsIn
<1> QED
  BY <1>1 DEF BelowAt

(* Below(a) is a and what is under it.                                     *)
LEMMA BelowFacts ==
  ASSUME cli \in DOMAIN Interfaces, NEW a \in Apps
  PROVE  Below(a) = {a} \cup Under(Definition, a)
<1> DEFINE D == Apps
           V == [b \in Apps |-> {{b} \cup Under(Definition, b)}]
           Dep == SubsOf
           Fam == Family(D, V)
           Body(f, b) == BelowAt(f, b)
           F == [f \in Fam |-> [b \in D |-> Body(f, b)]]
<1>1. /\ IsFiniteSet(D) /\ Grounded(D, Dep) /\ \A b \in D : Dep[b] \subseteq D
      /\ \A b \in D : V[b] # {}
  BY Now, NowGrounded
<1>2. ASSUME NEW f, NEW b \in D, \A c \in Dep[b] : f[c] \in V[c]
      PROVE  Body(f, b) \in V[b]
  BY <1>1, <1>2, BelowType DEF SubsOf
<1>3. ASSUME NEW f, NEW g, NEW b \in D, \A c \in Dep[b] : f[c] = g[c]
      PROVE  Body(f, b) = Body(g, b)
  BY <1>3, BelowAgrees DEF SubsOf
<1> HIDE DEF Body, V, Dep, D
<1>4. F \in [Fam -> Fam]
  <2> SUFFICES ASSUME NEW f \in Fam PROVE [b \in D |-> Body(f, b)] \in Fam
    OBVIOUS
  <2>1. \A b \in D : Body(f, b) \in V[b]
    BY <1>1, <1>2 DEF Family
  <2> QED
    BY <2>1 DEF Family
<1>5. \A f, g \in Fam : \A b \in D : (\A c \in Dep[b] \cap D : f[c] = g[c]) => F[f][b] = F[g][b]
  BY <1>1, <1>3
<1> HIDE DEF F
<1>6. PICK f \in Fam : F[f] = f
  <2>1. Unfolding(D, Dep, V, F)
    BY <1>1, <1>4, <1>5 DEF Unfolding
  <2> QED
    BY <2>1, RecursionDefined
<1>7. IsBelow(f)
  BY <1>6 DEF IsBelow, Body, F, D
<1> DEFINE g == CHOOSE h : IsBelow(h)
<1>8. IsBelow(g)
  BY <1>7
<1> HIDE DEF g
<1>9. \A b \in D : g[b] = Body(g, b)
  BY <1>8 DEF IsBelow, Body, D
<1> DEFINE P == {b \in D : g[b] \in V[b]}
<1>10. D \subseteq P
  <2>1. \A b \in D : Dep[b] \cap D \subseteq P => b \in P
    BY <1>1, <1>2, <1>9
  <2> HIDE DEF P
  <2> QED
    BY <1>1, <2>1, GroundedInduction
<1> QED
  BY <1>10, BelowIs DEF g, V, D

(* GroupsOver, unfolded once: the apps between an app and one above it.    *)
OverAt(f, b, top) == LET parent == App(b).parent IN IF parent = top THEN <<>> ELSE <<parent>> \o f[parent]
IsOver(f, top) == f = [b \in Below(top) \ {top} |-> OverAt(f, b, top)]

(* GroupsOver is a function that solves this equation.                     *)
LEMMA OverIs == \A a, top : GroupsOver(a, top) = (CHOOSE f : IsOver(f, top))[a]
BY DEF GroupsOver, IsOver, OverAt

GroupsBetween(top, b) == {s \in Seq(Under(Definition, top)) : \A g \in Range(s) : b \in Under(Definition, g)}
OverDep(top) == [b \in Below(top) \ {top} |-> {App(b).parent} \ {top}]

(* The recursion from an app up to one above it ends.                      *)
LEMMA OverGrounded ==
  ASSUME cli \in DOMAIN Interfaces, NEW top \in Apps
  PROVE  /\ Below(top) \ {top} = Under(Definition, top)
         /\ IsFiniteSet(Below(top) \ {top}) /\ Grounded(Below(top) \ {top}, OverDep(top))
         /\ \A b \in Below(top) \ {top} : OverDep(top)[b] \subseteq Below(top) \ {top}
         /\ \A b \in Below(top) \ {top} : GroupsBetween(top, b) # {}
<1>1. IsTree(Definition) /\ Apps = DOMAIN Definition.apps /\ Under(Definition, top) \subseteq Apps
  BY Now, UnderFacts
<1>2. top \notin Under(Definition, top)
  BY <1>1, Topmost, {top} \in SUBSET DOMAIN Definition.apps
<1>3. Below(top) \ {top} = Under(Definition, top)
  BY <1>2, BelowFacts
<1>4. \A b \in Under(Definition, top) : App(b).parent = top \/ App(b).parent \in Under(Definition, top)
  BY <1>1, Now, UnderParent
<1>5. ASSUME NEW S \in SUBSET Under(Definition, top), S # {}
      PROVE  \E b \in S : OverDep(top)[b] \cap S = {}
  <2>1. PICK b \in S : \A c \in S : b \notin Under(Definition, c)
    BY <1>1, <1>5, Topmost
  <2>2. b \in Apps \ {Root}
    BY <1>1, Now, UnderParent
  <2>3. b \in Under(Definition, App(b).parent)
    BY <2>2, RootIs
  <2> QED
    BY <1>3, <2>1, <2>3 DEF OverDep
<1>6. \A b \in Under(Definition, top) : <<>> \in GroupsBetween(top, b)
  <2>1. <<>> \in Seq(Under(Definition, top)) /\ Range(<<>>) = {}
    BY EmptyFacts
  <2> QED
    BY <2>1 DEF GroupsBetween
<1>7. IsFiniteSet(Under(Definition, top))
  BY <1>1, Now, FS_Subset
<1>8. \A b \in Under(Definition, top) : OverDep(top)[b] \subseteq Under(Definition, top)
  BY <1>3, <1>4 DEF OverDep
<1>9. Grounded(Under(Definition, top), OverDep(top))
  BY <1>5 DEF Grounded
<1>10. \A b \in Under(Definition, top) : GroupsBetween(top, b) # {}
  BY <1>6
<1> QED
  BY <1>3, <1>7, <1>8, <1>9, <1>10

(* One unfolding gives apps between the two, if that of the parent does.   *)
LEMMA OverType ==
  ASSUME cli \in DOMAIN Interfaces, NEW top \in Apps, NEW b \in Below(top) \ {top}, NEW f,
         \A c \in OverDep(top)[b] : f[c] \in GroupsBetween(top, c)
  PROVE  OverAt(f, b, top) \in GroupsBetween(top, b)
<1> DEFINE p == App(b).parent
           U == Under(Definition, top)
<1>1. CASE p = top
  <2>1. <<>> \in Seq(U) /\ Range(<<>>) = {}
    BY EmptyFacts
  <2> QED
    BY <1>1, <2>1 DEF GroupsBetween, OverAt
<1>2. CASE p # top
  <2>1. p \in OverDep(top)[b] /\ p \in U /\ p \in Apps /\ U \subseteq Apps /\ b \in U
    BY <1>2, OverGrounded, Now, UnderFacts DEF OverDep
  <2>2. f[p] \in Seq(U) /\ \A g \in Range(f[p]) : p \in Under(Definition, g)
    BY <2>1 DEF GroupsBetween
  <2>3. b \in Under(Definition, p) /\ b \in SubsIn(Definition, p)
    BY <2>1, Now, ParentIs, UnderSub, UnderParent
  <2> DEFINE s == f[p]
  <2> HIDE DEF s, p, U
  <2>4. s \in Seq(U)
    BY <2>2 DEF s
  <2>5. IsSequence(<<p>>) /\ IsSequence(s) /\ Range(<<p>>) = {p}
    BY <2>4, OneFacts, SequencesAre
  <2>6. Range(<<p>> \o s) = {p} \cup Range(s) /\ Range(s) \subseteq U
    BY <2>4, <2>5, ConcatFacts, SequencesAre
  <2>7. \A g \in Range(s) : b \in Under(Definition, g)
    <3> SUFFICES ASSUME NEW g \in Range(s) PROVE b \in Under(Definition, g)
      OBVIOUS
    <3>1. g \in Apps /\ p \in Under(Definition, g)
      BY <2>1, <2>2, <2>6 DEF s
    <3>2. Closed(Definition, Under(Definition, g))
      BY <3>1, Now, UnderFacts
    <3> QED
      BY <2>3, <3>1, <3>2 DEF Closed
  <2>8. <<p>> \o s \in Seq(U)
    BY <2>1, <2>4
  <2>9. <<p>> \o s \in GroupsBetween(top, b)
    BY <2>3, <2>6, <2>7, <2>8 DEF GroupsBetween, U
  <2> QED
    BY <1>2, <2>9 DEF OverAt, p, s
<1> QED
  BY <1>1, <1>2

(* One unfolding depends on the parent only.                               *)
LEMMA OverAgrees ==
  ASSUME NEW top, NEW b \in Below(top) \ {top}, NEW f, NEW g,
         \A c \in OverDep(top)[b] : f[c] = g[c]
  PROVE  OverAt(f, b, top) = OverAt(g, b, top)
BY DEF OverAt, OverDep

(* GroupsOver gives apps between the two, each above the lower one.        *)
LEMMA GroupsOverFacts ==
  ASSUME cli \in DOMAIN Interfaces, NEW top \in Apps, NEW a \in Under(Definition, top)
  PROVE  GroupsOver(a, top) \in GroupsBetween(top, a)
<1> DEFINE D == Below(top) \ {top}
           V == [b \in Below(top) \ {top} |-> GroupsBetween(top, b)]
           Dep == OverDep(top)
           Fam == Family(D, V)
           Body(f, b) == OverAt(f, b, top)
           F == [f \in Fam |-> [b \in D |-> Body(f, b)]]
<1>1. /\ IsFiniteSet(D) /\ Grounded(D, Dep) /\ \A b \in D : Dep[b] \subseteq D
      /\ \A b \in D : V[b] # {}
  BY OverGrounded
<1>2. ASSUME NEW f, NEW b \in D, \A c \in Dep[b] : f[c] \in V[c]
      PROVE  Body(f, b) \in V[b]
  BY <1>1, <1>2, OverType
<1>3. ASSUME NEW f, NEW g, NEW b \in D, \A c \in Dep[b] : f[c] = g[c]
      PROVE  Body(f, b) = Body(g, b)
  BY <1>3, OverAgrees
<1> HIDE DEF Body, V, Dep, D
<1>4. F \in [Fam -> Fam]
  <2> SUFFICES ASSUME NEW f \in Fam PROVE [b \in D |-> Body(f, b)] \in Fam
    OBVIOUS
  <2>1. \A b \in D : Body(f, b) \in V[b]
    BY <1>1, <1>2 DEF Family
  <2> QED
    BY <2>1 DEF Family
<1>5. \A f, g \in Fam : \A b \in D : (\A c \in Dep[b] \cap D : f[c] = g[c]) => F[f][b] = F[g][b]
  BY <1>1, <1>3
<1> HIDE DEF F
<1>6. PICK f \in Fam : F[f] = f
  <2>1. Unfolding(D, Dep, V, F)
    BY <1>1, <1>4, <1>5 DEF Unfolding
  <2> QED
    BY <2>1, RecursionDefined
<1>7. IsOver(f, top)
  BY <1>6 DEF IsOver, Body, F, D
<1> DEFINE g == CHOOSE h : IsOver(h, top)
<1>8. IsOver(g, top)
  BY <1>7
<1> HIDE DEF g
<1>9. \A b \in D : g[b] = Body(g, b)
  BY <1>8 DEF IsOver, Body, D
<1> DEFINE P == {b \in D : g[b] \in V[b]}
<1>10. D \subseteq P
  <2>1. \A b \in D : Dep[b] \cap D \subseteq P => b \in P
    BY <1>1, <1>2, <1>9
  <2> HIDE DEF P
  <2> QED
    BY <1>1, <2>1, GroundedInduction
<1> QED
  <2>1. a \in Below(top) \ {top}
    BY OverGrounded
  <2> QED
    BY <1>10, <2>1, OverIs DEF g, V, D

(* Section, unfolded once: the app a section of a file stands for, one     *)
(* name of its path after another.                                         *)
SectionAt(f, n, a, parents) ==
  IF n = 0 THEN a
  ELSE IF f[n - 1] = NoApp THEN NoApp
  ELSE find_subcommand(f[n - 1], parents[n], FALSE, FALSE)

IsSection(f, a, parents) == f = [n \in 0 .. Len(parents) |-> SectionAt(f, n, a, parents)]

(* Section is a function that solves this equation.                        *)
LEMMA SectionIs ==
  \A a, parents : Section(a, parents) = (CHOOSE f : IsSection(f, a, parents))[Len(parents)]
BY DEF Section, IsSection, SectionAt

Before(n) == [m \in 0 .. n |-> IF m = 0 THEN {} ELSE {m - 1}]

(* A recursion from a number to the one before it ends.                    *)
LEMMA NumbersGrounded ==
  ASSUME NEW n \in Nat
  PROVE  /\ IsFiniteSet(0 .. n) /\ Grounded(0 .. n, Before(n))
         /\ \A m \in 0 .. n : Before(n)[m] \subseteq 0 .. n
<1>1. ASSUME NEW S \in SUBSET (0 .. n), S # {}
      PROVE  \E m \in S : Before(n)[m] \cap S = {}
  <2>1. S \in SUBSET Nat
    OBVIOUS
  <2>2. PICK m \in S : \A k \in S : m <= k
    BY <1>1, <2>1, LeastNumber
  <2>3. Before(n)[m] \cap S = {}
    BY <2>2 DEF Before
  <2> QED
    BY <2>3
<1>2. IsFiniteSet(0 .. n)
  BY FS_Interval
<1>3. \A m \in 0 .. n : Before(n)[m] \subseteq 0 .. n
  BY DEF Before
<1> QED
  BY <1>1, <1>2, <1>3 DEF Grounded

(* One unfolding gives an app or none, if that of the number before does.  *)
LEMMA SectionType ==
  ASSUME cli \in DOMAIN Interfaces, NEW a \in Apps, NEW parents, Len(parents) \in Nat,
         NEW n \in 0 .. Len(parents), NEW f,
         \A m \in Before(Len(parents))[n] : f[m] \in Apps \cup {NoApp}
  PROVE  SectionAt(f, n, a, parents) \in Apps \cup {NoApp}
<1>1. CASE n = 0
  BY <1>1 DEF SectionAt
<1>2. CASE n # 0
  <2>1. f[n - 1] \in Apps \cup {NoApp}
    BY <1>2 DEF Before
  <2>2. \A b \in Apps : find_subcommand(b, parents[n], FALSE, FALSE) \in Apps \cup {NoApp}
    BY FindSubcommand, Now, UnderFacts
  <2> QED
    BY <1>2, <2>1, <2>2 DEF SectionAt
<1> QED
  BY <1>1, <1>2

(* One unfolding depends on the number before only.                        *)
LEMMA SectionAgrees ==
  ASSUME NEW a, NEW parents, Len(parents) \in Nat,
         NEW n \in 0 .. Len(parents), NEW f, NEW g,
         \A m \in Before(Len(parents))[n] : f[m] = g[m]
  PROVE  SectionAt(f, n, a, parents) = SectionAt(g, n, a, parents)
BY DEF SectionAt, Before

(* A section stands for an app, or for none.                               *)
LEMMA SectionFacts ==
  ASSUME cli \in DOMAIN Interfaces, NEW a \in Apps, NEW parents, Len(parents) \in Nat
  PROVE  Section(a, parents) \in Apps \cup {NoApp}
<1> DEFINE D == 0 .. Len(parents)
           V == [n \in 0 .. Len(parents) |-> Apps \cup {NoApp}]
           Dep == Before(Len(parents))
           Fam == Family(D, V)
           Body(f, b) == SectionAt(f, b, a, parents)
           F == [f \in Fam |-> [b \in D |-> Body(f, b)]]
<1>1. /\ IsFiniteSet(D) /\ Grounded(D, Dep) /\ \A b \in D : Dep[b] \subseteq D
      /\ \A b \in D : V[b] # {}
  BY NumbersGrounded
<1>2. ASSUME NEW f, NEW b \in D, \A c \in Dep[b] : f[c] \in V[c]
      PROVE  Body(f, b) \in V[b]
  BY <1>1, <1>2, SectionType
<1>3. ASSUME NEW f, NEW g, NEW b \in D, \A c \in Dep[b] : f[c] = g[c]
      PROVE  Body(f, b) = Body(g, b)
  BY <1>3, SectionAgrees
<1> HIDE DEF Body, V, Dep, D
<1>4. F \in [Fam -> Fam]
  <2> SUFFICES ASSUME NEW f \in Fam PROVE [b \in D |-> Body(f, b)] \in Fam
    OBVIOUS
  <2>1. \A b \in D : Body(f, b) \in V[b]
    BY <1>1, <1>2 DEF Family
  <2> QED
    BY <2>1 DEF Family
<1>5. \A f, g \in Fam : \A b \in D : (\A c \in Dep[b] \cap D : f[c] = g[c]) => F[f][b] = F[g][b]
  BY <1>1, <1>3
<1> HIDE DEF F
<1>6. PICK f \in Fam : F[f] = f
  <2>1. Unfolding(D, Dep, V, F)
    BY <1>1, <1>4, <1>5 DEF Unfolding
  <2> QED
    BY <2>1, RecursionDefined
<1>7. IsSection(f, a, parents)
  BY <1>6 DEF IsSection, Body, F, D
<1> DEFINE g == CHOOSE h : IsSection(h, a, parents)
<1>8. IsSection(g, a, parents)
  BY <1>7
<1> HIDE DEF g
<1>9. \A b \in D : g[b] = Body(g, b)
  BY <1>8 DEF IsSection, Body, D
<1> DEFINE P == {b \in D : g[b] \in V[b]}
<1>10. D \subseteq P
  <2>1. \A b \in D : Dep[b] \cap D \subseteq P => b \in P
    BY <1>1, <1>2, <1>9
  <2> HIDE DEF P
  <2> QED
    BY <1>1, <2>1, GroundedInduction
<1> QED
  BY <1>10, SectionIs DEF g, V, D
-----------------------------------------------------------------------------
(* The first error is one of those listed, and there is none only if none  *)
(* is listed.                                                              *)
LEMMA FirstErrorFacts ==
  ASSUME NEW errors, IsSequence(errors)
  PROVE  \/ FirstError(errors) = "none" /\ \A i \in DOMAIN errors : errors[i] = "none"
         \/ \E i \in DOMAIN errors : errors[i] # "none" /\ FirstError(errors) = errors[i]
<1> DEFINE places == {i \in DOMAIN errors : errors[i] # "none"}
<1>1. FirstError(errors) = At(errors, places, "none")
  BY DEF FirstError, First
<1>2. \/ places = {} /\ At(errors, places, "none") = "none"
      \/ \E i \in places : At(errors, places, "none") = errors[i]
  <2>1. places \subseteq DOMAIN errors
    OBVIOUS
  <2> HIDE DEF places
  <2> QED
    BY <2>1, AtFacts
<1> QED
  BY <1>1, <1>2

(* _process_help_flags, unfolded once: the subcommands that were used are  *)
(* asked, and at the end of each line who was asked to help calls for it.  *)
HelpAt(f, at) ==
  LET one == at[2] \/ IsGiven(App(at[1]).help)
      all == at[3] \/ IsGiven(App(at[1]).help_all)
      subs == apps[at[1]].parsed_subcommands
  IN  IF subs # <<>> THEN FirstError([i \in DOMAIN subs |-> f[<<subs[i], one, all>>]])
      ELSE IF all THEN "CallForAllHelp" ELSE IF one THEN "CallForHelp" ELSE "none"

HelpAts == Apps \X BOOLEAN \X BOOLEAN
IsHelp(f) == f = [at \in HelpAts |-> HelpAt(f, at)]

(* HelpFlags is a function that solves this equation.                      *)
LEMMA HelpIs == \A a, help, help_all : HelpFlags(a, help, help_all) = (CHOOSE f : IsHelp(f))[<<a, help, help_all>>]
BY DEF HelpFlags, IsHelp, HelpAt, HelpAts

Nested == \A a \in Apps : apps[a].parsed_subcommands \in Seq(Under(Definition, a))
HelpDep == [at \in HelpAts |-> Range(apps[at[1]].parsed_subcommands) \X BOOLEAN \X BOOLEAN]
HelpCalls == {"CallForAllHelp", "CallForHelp"}
HelpValues(at) == IF at[2] \/ at[3] \/ IsGiven(App(at[1]).help) THEN HelpCalls ELSE HelpCalls \cup {"none"}

(* The recursion ends, because the subcommands an app was used with are    *)
(* under it.                                                               *)
LEMMA HelpGrounded ==
  ASSUME cli \in DOMAIN Interfaces, Nested
  PROVE  /\ IsFiniteSet(HelpAts) /\ Grounded(HelpAts, HelpDep)
         /\ \A at \in HelpAts : HelpDep[at] \subseteq HelpAts
<1>1. \A a \in Apps : Range(apps[a].parsed_subcommands) \subseteq Under(Definition, a)
  BY SequencesAre DEF Nested
<1>2. ASSUME NEW S \in SUBSET HelpAts, S # {}
      PROVE  \E at \in S : HelpDep[at] \cap S = {}
  <2> DEFINE X == {at[1] : at \in S}
  <2>1. X \in SUBSET Apps /\ X # {}
    BY <1>2 DEF HelpAts
  <2> HIDE DEF X
  <2>2. PICK x \in X : [c \in Apps |-> Under(Definition, c)][x] \cap X = {}
    BY <2>1, Now, TreeGrounded DEF Grounded
  <2>3. PICK at \in S : at[1] = x
    BY DEF X
  <2>4. \A c \in S : c[1] \in X
    BY DEF X
  <2>5. \A c \in HelpDep[at] : c[1] \in Under(Definition, x)
    BY <1>1, <2>1, <2>3 DEF HelpDep
  <2>6. Under(Definition, x) \cap X = {}
    BY <2>1, <2>2
  <2> QED
    BY <2>4, <2>5, <2>6
<1>3. IsFiniteSet(HelpAts)
  <2> DEFINE pairs == Ats \X BOOLEAN
             triple == [p \in pairs |-> <<p[1][1], p[1][2], p[2]>>]
  <2>1. IsFiniteSet(BOOLEAN)
    <3>1. BOOLEAN = {TRUE, FALSE}
      OBVIOUS
    <3>2. IsFiniteSet({TRUE}) /\ IsFiniteSet({FALSE})
      BY FS_Singleton
    <3>3. IsFiniteSet({TRUE} \cup {FALSE}) /\ {TRUE} \cup {FALSE} = {TRUE, FALSE}
      BY <3>2, FS_Union
    <3> QED
      BY <3>1, <3>3
  <2>2. IsFiniteSet(pairs)
    BY <2>1, AtGrounded, FS_Product
  <2>3. \A at \in HelpAts : <<<<at[1], at[2]>>, at[3]>> \in pairs /\ triple[<<<<at[1], at[2]>>, at[3]>>] = at
    BY DEF Ats, HelpAts
  <2>4. \A p \in pairs : triple[p] \in HelpAts
    BY DEF Ats, HelpAts
  <2> HIDE DEF pairs
  <2>5. triple \in [pairs -> HelpAts]
    BY <2>4
  <2> HIDE DEF triple
  <2>6. triple \in Surjection(pairs, HelpAts)
    BY <2>3, <2>5 DEF Surjection
  <2> QED
    BY <2>2, <2>6, FS_Surjection
<1>4. \A at \in HelpAts : HelpDep[at] \subseteq HelpAts
  <2>1. \A a \in Apps : Range(apps[a].parsed_subcommands) \subseteq Apps
    BY <1>1, Now, UnderFacts
  <2> QED
    BY <2>1 DEF HelpDep, HelpAts
<1> QED
  BY <1>2, <1>3, <1>4 DEF Grounded

(* One unfolding calls for help if it was asked to, if those of the        *)
(* subcommands do.                                                         *)
LEMMA HelpType ==
  ASSUME cli \in DOMAIN Interfaces, Nested, NEW at \in HelpAts, NEW f,
         \A c \in HelpDep[at] : f[c] \in HelpValues(c)
  PROVE  HelpAt(f, at) \in HelpValues(at)
<1> DEFINE one == at[2] \/ IsGiven(App(at[1]).help)
           all == at[3] \/ IsGiven(App(at[1]).help_all)
           subs == apps[at[1]].parsed_subcommands
           errors == [i \in DOMAIN subs |-> f[<<subs[i], one, all>>]]
<1>1. one \in BOOLEAN /\ all \in BOOLEAN /\ at[1] \in Apps
  BY DEF HelpAts, IsGiven
<1>2. subs \in Seq(Under(Definition, at[1]))
  BY <1>1 DEF Nested
<1>3. /\ IsSequence(subs) /\ Len(subs) \in Nat /\ DOMAIN subs = 1 .. Len(subs)
      /\ \A i \in DOMAIN subs : subs[i] \in Range(subs)
  BY <1>2, SequencesAre DEF Range
<1>4. HelpAt(f, at) = IF subs # <<>> THEN FirstError(errors)
                      ELSE IF all THEN "CallForAllHelp" ELSE IF one THEN "CallForHelp" ELSE "none"
  BY DEF HelpAt
<1>5. \A i \in DOMAIN subs : errors[i] \in HelpValues(<<subs[i], one, all>>)
  <2> SUFFICES ASSUME NEW i \in DOMAIN subs PROVE f[<<subs[i], one, all>>] \in HelpValues(<<subs[i], one, all>>)
    OBVIOUS
  <2>1. <<subs[i], one, all>> \in HelpDep[at]
    BY <1>1, <1>3 DEF HelpDep
  <2> QED
    BY <2>1
<1>6. CASE subs = <<>>
  BY <1>1, <1>4, <1>6 DEF HelpValues, HelpCalls
<1>7. CASE subs # <<>>
  <2>1. IsSequence(errors) /\ DOMAIN errors = DOMAIN subs
    <3> DEFINE h == [i \in DOMAIN subs |-> f[<<subs[i], one, all>>]]
    <3>1. \A k \in Nat : IsSequence([i \in 1 .. k |-> h[i]])
      BY Made
    <3>2. h = [i \in 1 .. Len(subs) |-> h[i]]
      BY <1>3
    <3> HIDE DEF h
    <3>3. IsSequence(h)
      BY <1>3, <3>1, <3>2
    <3> QED
      BY <3>3 DEF h
  <2>2. 1 \in DOMAIN subs
    BY <1>2, <1>3, <1>7
  <2> HIDE DEF errors
  <2>3. \/ FirstError(errors) = "none" /\ \A i \in DOMAIN errors : errors[i] = "none"
        \/ \E i \in DOMAIN errors : errors[i] # "none" /\ FirstError(errors) = errors[i]
    BY <2>1, FirstErrorFacts
  <2>4. \A i \in DOMAIN subs : errors[i] \in HelpCalls \cup {"none"} /\ (one \/ all => errors[i] \in HelpCalls)
    BY <1>1, <1>5 DEF HelpValues
  <2>5. FirstError(errors) \in HelpCalls \cup {"none"} /\ (one \/ all => FirstError(errors) \in HelpCalls)
    BY <2>1, <2>2, <2>3, <2>4 DEF HelpCalls
  <2> QED
    BY <1>1, <1>4, <1>7, <2>5 DEF HelpValues
<1> QED
  BY <1>6, <1>7

(* One unfolding depends on the subcommands used only.                     *)
LEMMA HelpAgrees ==
  ASSUME Nested, NEW at \in HelpAts, NEW f, NEW g,
         \A c \in HelpDep[at] : f[c] = g[c]
  PROVE  HelpAt(f, at) = HelpAt(g, at)
<1> DEFINE one == at[2] \/ IsGiven(App(at[1]).help)
           all == at[3] \/ IsGiven(App(at[1]).help_all)
           subs == apps[at[1]].parsed_subcommands
<1>1. one \in BOOLEAN /\ all \in BOOLEAN
  BY DEF HelpAts, IsGiven
<1>2. \A i \in DOMAIN subs : <<subs[i], one, all>> \in HelpDep[at]
  BY <1>1 DEF HelpDep, Range
<1>3. [i \in DOMAIN subs |-> f[<<subs[i], one, all>>]] = [i \in DOMAIN subs |-> g[<<subs[i], one, all>>]]
  BY <1>2
<1> QED
  BY <1>3 DEF HelpAt

(* Who was asked to help calls for it, in itself or in the subcommands     *)
(* that were used: no error but a call for help comes out of               *)
(* _process_help_flags, and one does if the option is given.               *)
LEMMA HelpFlagsFacts ==
  ASSUME cli \in DOMAIN Interfaces, Nested, NEW a \in Apps
  PROVE  HelpFlags(a, FALSE, FALSE) \in HelpValues(<<a, FALSE, FALSE>>)
<1> DEFINE D == HelpAts
           V == [at \in HelpAts |-> HelpValues(at)]
           Dep == HelpDep
           Fam == Family(D, V)
           Body(f, b) == HelpAt(f, b)
           F == [f \in Fam |-> [b \in D |-> Body(f, b)]]
<1>1. /\ IsFiniteSet(D) /\ Grounded(D, Dep) /\ \A b \in D : Dep[b] \subseteq D
      /\ \A b \in D : V[b] # {}
  BY HelpGrounded DEF HelpValues, HelpCalls
<1>2. ASSUME NEW f, NEW b \in D, \A c \in Dep[b] : f[c] \in V[c]
      PROVE  Body(f, b) \in V[b]
  BY <1>1, <1>2, HelpType
<1>3. ASSUME NEW f, NEW g, NEW b \in D, \A c \in Dep[b] : f[c] = g[c]
      PROVE  Body(f, b) = Body(g, b)
  BY <1>3, HelpAgrees
<1> HIDE DEF Body, V, Dep, D
<1>4. F \in [Fam -> Fam]
  <2> SUFFICES ASSUME NEW f \in Fam PROVE [b \in D |-> Body(f, b)] \in Fam
    OBVIOUS
  <2>1. \A b \in D : Body(f, b) \in V[b]
    BY <1>1, <1>2 DEF Family
  <2> QED
    BY <2>1 DEF Family
<1>5. \A f, g \in Fam : \A b \in D : (\A c \in Dep[b] \cap D : f[c] = g[c]) => F[f][b] = F[g][b]
  BY <1>1, <1>3
<1> HIDE DEF F
<1>6. PICK f \in Fam : F[f] = f
  <2>1. Unfolding(D, Dep, V, F)
    BY <1>1, <1>4, <1>5 DEF Unfolding
  <2> QED
    BY <2>1, RecursionDefined
<1>7. IsHelp(f)
  BY <1>6 DEF IsHelp, Body, F, D
<1> DEFINE g == CHOOSE h : IsHelp(h)
<1>8. IsHelp(g)
  BY <1>7
<1> HIDE DEF g
<1>9. \A b \in D : g[b] = Body(g, b)
  BY <1>8 DEF IsHelp, Body, D
<1> DEFINE P == {b \in D : g[b] \in V[b]}
<1>10. D \subseteq P
  <2>1. \A b \in D : Dep[b] \cap D \subseteq P => b \in P
    BY <1>1, <1>2, <1>9
  <2> HIDE DEF P
  <2> QED
    BY <1>1, <2>1, GroundedInduction
<1> QED
  <2>1. <<a, FALSE, FALSE>> \in HelpAts
    BY DEF HelpAts
  <2> QED
    BY <1>10, <2>1, HelpIs DEF g, V, D
-----------------------------------------------------------------------------
(* What an option holds.                                                   *)
OptionFields == {"results", "proc_results", "state"}
OptionStates == {"parsing", "validated", "callback_run"}

IsOptionState(s) == s = [k \in OptionFields |-> s[k]] /\ s.state \in OptionStates

(* clear, add_result, _add_result and inject_separator leave an option.    *)
LEMMA OptionSteps ==
  /\ IsOptionState(Fresh)
  /\ \A s : IsOptionState(s) =>
       /\ IsOptionState(Cleared(s))
       /\ \A opt, str : IsOptionState(add_result(opt, s, str))
       /\ \A opt, strs : IsOptionState(add_results(opt, s, strs))
       /\ \A opt : IsOptionState(inject_separator(opt, s))
<1>1. \A s, r, st : IsOptionState(s) /\ st \in OptionStates =>
        IsOptionState([s EXCEPT !.results = r, !.state = st])
  BY DEF IsOptionState, OptionFields
<1>2. IsOptionState(Fresh)
  BY DEF IsOptionState, Fresh, OptionFields, OptionStates
<1>3. "parsing" \in OptionStates
  BY DEF OptionStates
<1>4. ASSUME NEW s, IsOptionState(s)
      PROVE  /\ IsOptionState(Cleared(s))
             /\ \A opt, str : IsOptionState(add_result(opt, s, str))
             /\ \A opt, strs : IsOptionState(add_results(opt, s, strs))
  BY <1>1, <1>3, <1>4 DEF Cleared, add_result, add_results
<1>5. ASSUME NEW s, IsOptionState(s), NEW opt
      PROVE  IsOptionState(inject_separator(opt, s))
  BY <1>4, <1>5 DEF inject_separator
<1> QED
  BY <1>2, <1>4, <1>5

(* What a callback, or what comes before it, may throw.                    *)
Thrown(opt) == {"none", "ConversionError", "ArgumentMismatch", "ValidationError", opt.throws}

IsOutcome(opt, outcome) == IsOptionState(outcome.option) /\ outcome.error \in Thrown(opt)

(* run_callback leaves an option, and throws one of four errors of its own *)
(* or what the program's callback throws.                                  *)
LEMMA RunCallback ==
  ASSUME NEW opt, NEW s, IsOptionState(s)
  PROVE  IsOutcome(opt, run_callback(opt, s))
<1>1. ASSUME NEW t, IsOptionState(t)
      PROVE  IsOutcome(opt, Call(opt, t))
  <2>1. IsOptionState([t EXCEPT !.state = "callback_run"])
    BY <1>1 DEF IsOptionState, OptionFields, OptionStates
  <2> HIDE DEF IsOptionState
  <2>2. \A x : IsOutcome(opt, Outcome([t EXCEPT !.state = "callback_run"], "ConversionError", x))
    BY <2>1 DEF IsOutcome, Outcome, Thrown
  <2>3. \A x : IsOutcome(opt, Outcome([t EXCEPT !.state = "callback_run"], opt.throws, x))
    BY <2>1 DEF IsOutcome, Outcome, Thrown
  <2> QED
    BY <2>2, <2>3 DEF Call
<1>2. ASSUME NEW t, IsOptionState(t)
      PROVE  IsOutcome(opt, Reduce(opt, t))
  <2>1. \A r : IsOptionState([t EXCEPT !.proc_results = r])
    BY <1>2 DEF IsOptionState, OptionFields, OptionStates
  <2> DEFINE r == _reduce_results(opt, t.results)
  <2>2. IsOutcome(opt, Outcome([t EXCEPT !.proc_results = <<>>], "ArgumentMismatch", FALSE))
    BY <2>1 DEF IsOutcome, Outcome, Thrown
  <2>3. IsOutcome(opt, Call(opt, [t EXCEPT !.proc_results = r]))
    BY <2>1, <1>1
  <2> QED
    BY <2>2, <2>3 DEF Reduce
<1>3. ASSUME NEW t, IsOptionState(t), NEW v
      PROVE  IsOutcome(opt, Validated(opt, t, v))
  <2>1. /\ IsOptionState([t EXCEPT !.results = v.values, !.state = "validated"])
        /\ IsOptionState([t EXCEPT !.results = v.values])
    BY <1>3 DEF IsOptionState, OptionFields, OptionStates
  <2>2. IsOutcome(opt, Outcome([t EXCEPT !.results = v.values], "ValidationError", FALSE))
    BY <2>1 DEF IsOutcome, Outcome, Thrown
  <2>3. IsOutcome(opt, Reduce(opt, [t EXCEPT !.results = v.values, !.state = "validated"]))
    BY <2>1, <1>2
  <2> QED
    BY <2>2, <2>3 DEF Validated
<1>4. IsOptionState(Forced(opt, s))
  BY OptionSteps DEF Forced
<1>5. ASSUME NEW t, IsOptionState(t)
      PROVE  IsOutcome(opt, Run(opt, t))
  BY <1>1, <1>2, <1>3, <1>5 DEF Run
<1> QED
  BY <1>4, <1>5 DEF run_callback

(* What an app hands new values to is an option.                           *)
LEMMA Reception ==
  ASSUME NEW o, IsOptionState(options[o])
  PROVE  IsOptionState(reception(o))
BY OptionSteps DEF reception

(* What an option is after it took its values, with a callback or not.     *)
LEMMA Acceptance ==
  ASSUME NEW o, NEW s, IsOptionState(s)
  PROVE  IsOutcome(Opt(o), acceptance(o, s))
<1>1. IsOutcome(Opt(o), Outcome(s, "none", FALSE))
  BY DEF IsOutcome, Outcome, Thrown
<1> QED
  BY <1>1, RunCallback DEF acceptance

(* What an option is when the values that were collected are its own.      *)
LEMMA FilledIs ==
  ASSUME NEW opt, NEW s, IsOptionState(s), NEW g, NEW name
  PROVE  IsOutcome(opt, Filled(opt, s, g, name))
<1>1. \A r : /\ IsOutcome(opt, Outcome(s, "ArgumentMismatch", FALSE))
             /\ IsOutcome(opt, Outcome(s, "none", FALSE))
             /\ IsOutcome(opt, Outcome(add_result(opt, s, r), "none", FALSE))
  BY OptionSteps DEF IsOutcome, Outcome, Thrown
<1> QED
  BY <1>1 DEF Filled

(* The least of some numbers up to n, or n.                                *)
LEMMA LeastOfFacts ==
  ASSUME NEW n \in Nat, NEW S \in SUBSET (0 .. n)
  PROVE  LeastOf(S, n) \in 0 .. n
<1>1. CASE S = {}
  BY <1>1 DEF LeastOf
<1>2. CASE S # {}
  <2>1. S \in SUBSET Nat
    OBVIOUS
  <2>2. PICK k \in S : \A m \in S : k <= m
    BY <1>2, <2>1, LeastNumber
  <2>3. Min(S) \in S
    BY <2>2 DEF Min
  <2> QED
    BY <1>2, <2>3 DEF LeastOf
<1> QED
  BY <1>1, <1>2

(* The values that an option takes of the arguments, and those left.       *)
IsGathering(g) == IsSequence(g.values) /\ IsSequence(g.left)

(* Gather splits the arguments into two sequences.                         *)
LEMMA GatherIs ==
  ASSUME NEW a, NEW o, NEW s, NEW base, NEW rest, IsSequence(rest)
  PROVE  IsGathering(Gather(a, o, s, base, rest))
<1> DEFINE least == Least(Opt(o), base, rest)
           held == [options EXCEPT ![o] = add_results(Opt(o), s, SubSeq(rest, 1, least))]
           most == Most(a, o, held, base, rest, least)
<1>1. Len(rest) \in Nat
  BY SequenceFacts
<1>2. least \in 0 .. Len(rest)
  BY <1>1, LeastOfFacts DEF Least
<1> HIDE DEF least
<1>3. most \in 0 .. Len(rest)
  <2> DEFINE S == {n \in least .. Len(rest) : Stops(a, o, held, base, rest, n)}
  <2>1. S \in SUBSET (0 .. Len(rest))
    BY <1>1, <1>2
  <2>2. most = IF May(Opt(o), Collected(Opt(o), base, rest, least)) THEN LeastOf(S, Len(rest)) ELSE least
    BY DEF Most
  <2> HIDE DEF S, most
  <2> QED
    BY <1>1, <1>2, <2>1, <2>2, LeastOfFacts
<1> DEFINE g == Gathered(a, Opt(o), base, rest, least, most)
<1>4. Gather(a, o, s, base, rest) = g
  BY DEF Gather, GatherMore, least
<1> HIDE DEF most
<1>5. IsSequence(SubSeq(rest, 1, most))
  BY <1>1, <1>3, PartFacts, 1 \in Nat \ {0}
<1>6. \A n \in {1, 2} : IsSequence(SubSeq(rest, most + n, Len(rest)))
  <2> SUFFICES ASSUME NEW n \in {1, 2} PROVE IsSequence(SubSeq(rest, most + n, Len(rest)))
    OBVIOUS
  <2>1. most + n \in Nat \ {0} /\ Len(rest) \in 0 .. Len(rest)
    BY <1>1, <1>3
  <2> QED
    BY <2>1, PartFacts
<1>7. IsGathering(g)
  <2>1. g.values = SubSeq(rest, 1, most)
    BY DEF Gathered
  <2>2. \E n \in {1, 2} : g.left = SubSeq(rest, most + n, Len(rest))
    BY DEF Gathered
  <2> QED
    BY <1>5, <1>6, <2>1, <2>2 DEF IsGathering
<1> QED
  BY <1>4, <1>7

(* What comes of an option that an argument names.                         *)
IsGift(o, given_to) ==
  /\ IsOutcome(Opt(o), given_to.outcome) /\ IsSequence(given_to.left) /\ given_to.values \in Nat

(* Supply gives the option its values and leaves a sequence of arguments.  *)
LEMMA SupplyIs ==
  ASSUME NEW a, NEW o, NEW s, IsOptionState(s), NEW base, NEW split, NEW rest, IsSequence(rest),
         NEW first, IsSequence(first), NEW back, IsSequence(back)
  PROVE  IsGift(o, Supply(a, o, s, base, split, rest, first, back))
<1> DEFINE g == Gather(a, o, s, base, rest)
           filled == Filled(Opt(o), add_results(Opt(o), s, g.values), g, split.name)
           gift == Given(o, g, filled, first, back)
<1>1. Supply(a, o, s, base, split, rest, first, back) = gift
  BY DEF Supply, Supplied
<1>2. IsGathering(g)
  BY GatherIs
<1> HIDE DEF g
<1>3. IsOutcome(Opt(o), filled)
  BY OptionSteps, FilledIs
<1> HIDE DEF filled
<1>4. IsOutcome(Opt(o), acceptance(o, filled.option))
  BY <1>3, Acceptance DEF IsOutcome
<1>5. IsOutcome(Opt(o), gift.outcome)
  BY <1>3, <1>4 DEF Given
<1>6. IsSequence(gift.left)
  BY <1>2, ConcatFacts DEF Given, IsGathering
<1>7. gift.values \in Nat
  <2>1. Len(first) \in Nat /\ Len(g.values) \in Nat
    BY <1>2, SequenceFacts DEF IsGathering
  <2>2. \E n \in {0, 1} : gift.values = Len(first) + Len(g.values) + n
    BY DEF Given
  <2> HIDE DEF gift
  <2> QED
    BY <2>1, <2>2
<1> HIDE DEF gift
<1> QED
  BY <1>1, <1>5, <1>6, <1>7 DEF IsGift

(* _parse_arg, once the option is found: it leaves an option and a         *)
(* sequence of arguments.                                                  *)
LEMMA OptionArg ==
  ASSUME NEW a, NEW o, IsOptionState(options[o]), NEW split, NEW rest, IsSequence(rest)
  PROVE  IsGift(o, option_arg(a, o, split, rest))
<1>1. \A e : IsSequence(<<>>) /\ IsSequence(<<e>>)
  BY OneFacts
<1>2. \A strs : IsOptionState(add_results(Opt(o), reception(o), strs))
  BY Reception, OptionSteps
<1>3. IsGift(o, Refused(o, rest))
  <2>1. IsOutcome(Opt(o), Outcome(reception(o), "ArgumentMismatch", FALSE))
    BY Reception DEF IsOutcome, Outcome, Thrown
  <2> QED
    BY <2>1 DEF IsGift, Refused
<1>4. \A flag : IsGift(o, Flagged(a, o, split, rest, flag))
  BY <1>1, <1>2, <1>3, SupplyIs DEF Flagged
<1>5. \A first : IsSequence(first) => IsGift(o, Valued(a, o, split, rest, first))
  BY <1>1, <1>2, SupplyIs DEF Valued
<1> QED
  BY <1>1, <1>4, <1>5 DEF option_arg
-----------------------------------------------------------------------------
(* What an app holds: counters, flags, options of its own that were used,  *)
(* in order, and apps under it that were used.                             *)
AppFields ==
  {"parsed", "pre_parse_called", "missing", "parse_order", "parsed_subcommands", "disabled"}

IsAppState(d, a, r) ==
  /\ r = [k \in AppFields |-> r[k]]
  /\ r.parsed \in Nat /\ r.pre_parse_called \in BOOLEAN /\ r.disabled \in BOOLEAN
  /\ r.parse_order \in Seq(OptionsIn(d, a)) /\ r.parsed_subcommands \in Seq(Under(d, a))

(* The fields of the state of an app.                                      *)
LEMMA AppHas ==
  ASSUME NEW d, NEW a, NEW r, IsAppState(d, a, r)
  PROVE  /\ r.parsed \in Nat /\ r.pre_parse_called \in BOOLEAN /\ r.disabled \in BOOLEAN
         /\ r.parse_order \in Seq(OptionsIn(d, a)) /\ r.parsed_subcommands \in Seq(Under(d, a))
BY DEF IsAppState

AppsAre(d, as) ==
  as = [a \in DOMAIN d.apps |-> as[a]] /\ \A a \in DOMAIN d.apps : IsAppState(d, a, as[a])

(* What the parser writes into an app leaves the state of an app.          *)
LEMMA AppSteps ==
  ASSUME NEW d, NEW a, NEW r, IsAppState(d, a, r)
  PROVE  /\ \A n \in Nat : IsAppState(d, a, [r EXCEPT !.parsed = n])
         /\ \A m : IsAppState(d, a, [r EXCEPT !.missing = m])
         /\ \A x \in BOOLEAN : IsAppState(d, a, [r EXCEPT !.disabled = x])
         /\ \A x, y \in BOOLEAN : IsAppState(d, a, [r EXCEPT !.disabled = x, !.pre_parse_called = y])
         /\ \A s \in Seq(OptionsIn(d, a)) : IsAppState(d, a, [r EXCEPT !.parse_order = s])
         /\ \A s \in Seq(Under(d, a)) : IsAppState(d, a, [r EXCEPT !.parsed_subcommands = s])
         /\ IsAppState(d, a, ClearedApp(r))
         /\ \A n \in Nat : \A m : \A x \in BOOLEAN :
              IsAppState(d, a, [ClearedApp(r) EXCEPT !.parsed = n, !.missing = m, !.pre_parse_called = x])
<1>1. /\ \A n \in Nat : IsAppState(d, a, [r EXCEPT !.parsed = n])
      /\ \A m : IsAppState(d, a, [r EXCEPT !.missing = m])
  BY DEF IsAppState, AppFields
<1>2. /\ \A x \in BOOLEAN : IsAppState(d, a, [r EXCEPT !.disabled = x])
      /\ \A x, y \in BOOLEAN : IsAppState(d, a, [r EXCEPT !.disabled = x, !.pre_parse_called = y])
  BY DEF IsAppState, AppFields
<1>3. /\ \A s \in Seq(OptionsIn(d, a)) : IsAppState(d, a, [r EXCEPT !.parse_order = s])
      /\ \A s \in Seq(Under(d, a)) : IsAppState(d, a, [r EXCEPT !.parsed_subcommands = s])
  BY DEF IsAppState, AppFields
<1>4. IsAppState(d, a, ClearedApp(r))
  <2>1. <<>> \in Seq(Under(d, a))
    OBVIOUS
  <2> QED
    BY <2>1 DEF IsAppState, AppFields, ClearedApp
<1>5. \A n \in Nat : \A m : \A x \in BOOLEAN :
        IsAppState(d, a, [ClearedApp(r) EXCEPT !.parsed = n, !.missing = m, !.pre_parse_called = x])
  <2> DEFINE c == ClearedApp(r)
  <2>1. c = [k \in AppFields |-> c[k]] /\ c.parse_order \in Seq(OptionsIn(d, a))
        /\ c.parsed_subcommands \in Seq(Under(d, a)) /\ c.disabled \in BOOLEAN
    BY <1>4 DEF IsAppState
  <2> HIDE DEF c
  <2>2. \A n \in Nat : \A m : \A x \in BOOLEAN :
          IsAppState(d, a, [c EXCEPT !.parsed = n, !.missing = m, !.pre_parse_called = x])
    <3> SUFFICES ASSUME NEW n \in Nat, NEW m, NEW x \in BOOLEAN
                 PROVE  IsAppState(d, a, [c EXCEPT !.parsed = n, !.missing = m, !.pre_parse_called = x])
      OBVIOUS
    <3> DEFINE e == [c EXCEPT !.parsed = n, !.missing = m, !.pre_parse_called = x]
    <3>1. /\ e = [k \in AppFields |-> e[k]] /\ e.parsed = n /\ e.pre_parse_called = x
          /\ e.parse_order = c.parse_order /\ e.parsed_subcommands = c.parsed_subcommands
          /\ e.disabled = c.disabled
      BY <2>1 DEF AppFields
    <3> HIDE DEF e
    <3>2. IsAppState(d, a, e)
      BY <2>1, <3>1 DEF IsAppState
    <3> QED
      BY <3>2 DEF e
  <2> QED
    BY <2>2 DEF c
<1> QED
  BY <1>1, <1>2, <1>3, <1>4, <1>5

(* The apps, with another state of one of them.                            *)
LEMMA AppsUpdated ==
  ASSUME NEW d, NEW as, AppsAre(d, as), NEW a, NEW r, IsAppState(d, a, r)
  PROVE  AppsAre(d, [as EXCEPT ![a] = r])
BY DEF AppsAre

(* The apps, with one more argument that is left over.                     *)
LEMMA AppsMissing ==
  ASSUME NEW d, NEW as, AppsAre(d, as), NEW a, NEW m
  PROVE  AppsAre(d, [as EXCEPT ![a].missing = m])
<1>1. CASE a \in DOMAIN d.apps
  <2>1. IsAppState(d, a, [as[a] EXCEPT !.missing = m])
    BY <1>1, AppSteps DEF AppsAre
  <2>2. AppsAre(d, [as EXCEPT ![a] = [as[a] EXCEPT !.missing = m]])
    BY <2>1, AppsUpdated
  <2> QED
    BY <2>2
<1>2. CASE a \notin DOMAIN d.apps
  BY <1>2 DEF AppsAre
<1> QED
  BY <1>1, <1>2

(* The apps, with one more subcommand used.                                *)
LEMMA AppsListing ==
  ASSUME NEW d, NEW as, AppsAre(d, as), NEW a \in DOMAIN d.apps, NEW sub \in Under(d, a)
  PROVE  AppsAre(d, [as EXCEPT ![a].parsed_subcommands = Append(@, sub)])
<1>1. IsAppState(d, a, as[a])
  BY DEF AppsAre
<1>2. as[a].parsed_subcommands \in Seq(Under(d, a))
  BY <1>1, AppHas
<1>3. Append(as[a].parsed_subcommands, sub) \in Seq(Under(d, a))
  <2> DEFINE s == as[a].parsed_subcommands
  <2>1. s \in Seq(Under(d, a))
    BY <1>2
  <2> HIDE DEF s
  <2>2. Append(s, sub) \in Seq(Under(d, a))
    BY <2>1
  <2> QED
    BY <2>2 DEF s
<1>4. IsAppState(d, a, [as[a] EXCEPT !.parsed_subcommands = Append(as[a].parsed_subcommands, sub)])
  BY <1>1, <1>3, AppSteps
<1>5. AppsAre(d, [as EXCEPT ![a] = [as[a] EXCEPT !.parsed_subcommands = Append(as[a].parsed_subcommands, sub)]])
  BY <1>4, AppsUpdated
<1> QED
  BY <1>5

(* The apps, with an option of one of them used some more times.           *)
LEMMA OrderedAre ==
  ASSUME cli \in DOMAIN Interfaces, AppsAre(Definition, apps),
         NEW a \in Apps, NEW o \in OptionsIn(Definition, a), NEW n \in Nat
  PROVE  AppsAre(Definition, Ordered(a, o, n))
<1> DEFINE more == [i \in 1 .. n |-> o]
           order == apps[a].parse_order \o more
<1>1. IsAppState(Definition, a, apps[a])
  BY Now DEF AppsAre
<1>2. apps[a].parse_order \in Seq(OptionsIn(Definition, a))
  BY <1>1, AppHas
<1>3. more \in Seq(OptionsIn(Definition, a))
  OBVIOUS
<1> HIDE DEF more
<1>4. order \in Seq(OptionsIn(Definition, a))
  BY <1>2, <1>3
<1>5. IsAppState(Definition, a, [apps[a] EXCEPT !.parse_order = order])
  BY <1>1, <1>4, AppSteps
<1>6. AppsAre(Definition, [apps EXCEPT ![a] = [apps[a] EXCEPT !.parse_order = order]])
  BY <1>5, AppsUpdated
<1> QED
  BY <1>6 DEF Ordered, more

(* increment_parsed leaves the states of apps.                             *)
LEMMA IncrementedAre ==
  ASSUME NEW d, NEW as, AppsAre(d, as), NEW a
  PROVE  AppsAre(d, Incremented(a, as))
<1>1. DOMAIN as = DOMAIN d.apps
  BY DEF AppsAre
<1>2. ASSUME NEW b \in DOMAIN d.apps
      PROVE  IsAppState(d, b, Incremented(a, as)[b])
  <2>1. IsAppState(d, b, as[b])
    BY DEF AppsAre
  <2>2. as[b].parsed + 1 \in Nat
    <3>1. as[b].parsed \in Nat
      BY <2>1, AppHas
    <3>2. \A n \in Nat : n + 1 \in Nat
      OBVIOUS
    <3> QED
      BY <3>1, <3>2
  <2>3. IsAppState(d, b, [as[b] EXCEPT !.parsed = as[b].parsed + 1])
    BY <2>1, <2>2, AppSteps
  <2> QED
    BY <1>1, <2>1, <2>3 DEF Incremented
<1> QED
  BY <1>1, <1>2 DEF AppsAre, Incremented

(* The enabling and disabling of other apps leaves the states of apps.     *)
LEMMA EnabledAre ==
  ASSUME NEW d, NEW as, AppsAre(d, as), NEW a
  PROVE  AppsAre(d, Enabled(a, as))
<1>1. DOMAIN as = DOMAIN d.apps
  BY DEF AppsAre
<1>2. ASSUME NEW b \in DOMAIN d.apps
      PROVE  IsAppState(d, b, Enabled(a, as)[b])
  <2> DEFINE x == (as[b].disabled \/ b \in App(a).disables) /\ b \notin App(a).enables
             y == as[b].pre_parse_called \/ b = a
  <2>1. IsAppState(d, b, as[b])
    BY DEF AppsAre
  <2>2. x \in BOOLEAN /\ y \in BOOLEAN
    BY <2>1, AppHas
  <2>3. Enabled(a, as)[b] = [as[b] EXCEPT !.disabled = x, !.pre_parse_called = y]
    BY <1>1 DEF Enabled
  <2> HIDE DEF x, y
  <2>4. IsAppState(d, b, [as[b] EXCEPT !.disabled = x, !.pre_parse_called = y])
    BY <2>1, <2>2, AppSteps
  <2> QED
    BY <2>3, <2>4
<1> QED
  BY <1>1, <1>2 DEF AppsAre, Enabled

(* _trigger_pre_parse leaves the states of apps.                           *)
LEMMA TriggeredAre ==
  ASSUME NEW d, NEW as, AppsAre(d, as), NEW a
  PROVE  AppsAre(d, Triggered(a, as))
<1> DEFINE afresh == [b \in DOMAIN as |->
             IF b = a THEN [ClearedApp(as[b]) EXCEPT !.parsed = as[b].parsed, !.missing = as[b].missing,
                                                     !.pre_parse_called = TRUE]
             ELSE IF b \in Below(a) THEN ClearedApp(as[b]) ELSE as[b]]
<1>1. DOMAIN as = DOMAIN d.apps
  BY DEF AppsAre
<1>2. ASSUME NEW b \in DOMAIN d.apps
      PROVE  IsAppState(d, b, afresh[b])
  <2>1. IsAppState(d, b, as[b])
    BY DEF AppsAre
  <2>2. as[b].parsed \in Nat
    BY <2>1, AppHas
  <2>3. IsAppState(d, b, [ClearedApp(as[b]) EXCEPT !.parsed = as[b].parsed, !.missing = as[b].missing,
                                                   !.pre_parse_called = TRUE])
    BY <2>1, <2>2, AppSteps
  <2>4. IsAppState(d, b, ClearedApp(as[b]))
    BY <2>1, AppSteps
  <2> QED
    BY <1>1, <2>1, <2>3, <2>4
<1>3. AppsAre(d, afresh)
  BY <1>1, <1>2 DEF AppsAre
<1> HIDE DEF afresh
<1>4. Triggered(a, as) = IF FirstUse(a, as) THEN Enabled(a, as)
                         ELSE IF StartsAfresh(a, as) THEN afresh ELSE as
  BY DEF Triggered, afresh
<1> QED
  BY <1>3, <1>4, EnabledAre

(* _configure leaves the states of apps.                                   *)
LEMMA ConfiguredAre ==
  ASSUME NEW d, NEW as, AppsAre(d, as)
  PROVE  AppsAre(d, _configure(as))
<1>1. DOMAIN as = DOMAIN d.apps
  BY DEF AppsAre
<1>2. ASSUME NEW b \in DOMAIN d.apps
      PROVE  IsAppState(d, b, _configure(as)[b])
  <2> DEFINE x == CASE App(b).startup = "enabled" -> FALSE [] App(b).startup = "disabled" -> TRUE
                    [] OTHER -> as[b].disabled
  <2>1. IsAppState(d, b, as[b])
    BY DEF AppsAre
  <2>2. x \in BOOLEAN
    BY <2>1, AppHas
  <2>3. _configure(as)[b] = [as[b] EXCEPT !.disabled = x]
    BY <1>1 DEF _configure
  <2> HIDE DEF x
  <2>4. IsAppState(d, b, [as[b] EXCEPT !.disabled = x])
    BY <2>1, <2>2, AppSteps
  <2> QED
    BY <2>3, <2>4
<1> QED
  BY <1>1, <1>2 DEF AppsAre, _configure

(* clear leaves the states of apps.                                        *)
LEMMA ClearedAre ==
  ASSUME NEW d, NEW as, AppsAre(d, as)
  PROVE  AppsAre(d, [a \in DOMAIN as |-> ClearedApp(as[a])])
<1>1. DOMAIN as = DOMAIN d.apps
  BY DEF AppsAre
<1>2. \A b \in DOMAIN d.apps : IsAppState(d, b, as[b])
  BY DEF AppsAre
<1>3. \A b \in DOMAIN d.apps : IsAppState(d, b, ClearedApp(as[b]))
  BY <1>2, AppSteps
<1> HIDE DEF IsAppState
<1> QED
  BY <1>1, <1>3 DEF AppsAre

(* The options.                                                            *)
OptionsAre(d, opts) ==
  opts = [o \in DOMAIN d.options |-> opts[o]] /\ \A o \in DOMAIN d.options : IsOptionState(opts[o])

(* The options, with another state of one of them.                         *)
LEMMA OptionsUpdated ==
  ASSUME NEW d, NEW opts, OptionsAre(d, opts), NEW o, NEW s,
         o \in DOMAIN d.options => IsOptionState(s)
  PROVE  OptionsAre(d, [opts EXCEPT ![o] = s])
BY DEF OptionsAre

(* The options, with another state of each.                                *)
LEMMA OptionsChanged ==
  ASSUME NEW d, NEW opts, OptionsAre(d, opts), NEW f,
         \A o \in DOMAIN d.options : IsOptionState(f[o])
  PROVE  OptionsAre(d, [o \in DOMAIN opts |-> f[o]])
<1>1. DOMAIN opts = DOMAIN d.options
  BY DEF OptionsAre
<1> QED
  BY <1>1 DEF OptionsAre
-----------------------------------------------------------------------------
(* The call stack: every task is of an app, and where it has an argument   *)
(* this is an app under it or an option; a group is not the root.          *)
IsTask(d, t) ==
  /\ t.of \in DOMAIN d.apps
  /\ t.do = "group" => t.of # d.root
  /\ t.do = "passed" => t.arg \in Under(d, t.of)
  /\ t.do = "callback" => t.arg \in DOMAIN d.options
TasksAre(d, s) == IsSequence(s) /\ \A t \in Range(s) : IsTask(d, t)

(* A sequence of tasks.                                                    *)
LEMMA TasksIn ==
  ASSUME NEW d, NEW S, \A t \in S : IsTask(d, t), NEW s \in Seq(S)
  PROVE  TasksAre(d, s)
BY SequencesAre DEF TasksAre

(* No task, and one task.                                                  *)
LEMMA FewTasks ==
  ASSUME NEW d
  PROVE  /\ TasksAre(d, <<>>)
         /\ \A t : IsTask(d, t) => TasksAre(d, <<t>>)
<1>1. TasksAre(d, <<>>)
  BY EmptyFacts DEF TasksAre
<1>2. ASSUME NEW t, IsTask(d, t)
      PROVE  TasksAre(d, <<t>>)
  <2> DEFINE one == <<t>>
  <2>1. IsSequence(one) /\ Range(one) = {t}
    BY OneFacts
  <2> HIDE DEF one
  <2>2. TasksAre(d, one)
    BY <1>2, <2>1 DEF TasksAre
  <2> QED
    BY <2>2 DEF one
<1> QED
  BY <1>1, <1>2

(* Tasks before other tasks.                                               *)
LEMMA TasksJoined ==
  ASSUME NEW d, NEW s, NEW t, TasksAre(d, s), TasksAre(d, t)
  PROVE  TasksAre(d, s \o t)
BY ConcatFacts DEF TasksAre

(* The first task, and what is left after it.                              *)
LEMMA TasksAhead ==
  ASSUME NEW d, NEW s, TasksAre(d, s), s # <<>>
  PROVE  IsTask(d, Head(s)) /\ TasksAre(d, Tail(s))
BY TailFacts DEF TasksAre

(* A task for each element of a sequence.                                  *)
LEMMA TasksMade ==
  ASSUME NEW d, NEW s, IsSequence(s), NEW f, \A i \in DOMAIN s : IsTask(d, f[i])
  PROVE  TasksAre(d, [i \in DOMAIN s |-> f[i]])
<1> DEFINE S == {f[i] : i \in DOMAIN s}
           r == [i \in DOMAIN s |-> f[i]]
<1>1. Len(s) \in Nat /\ DOMAIN s = 1 .. Len(s)
  BY SequenceFacts
<1>2. r \in Seq(S)
  BY <1>1
<1>3. \A t \in S : IsTask(d, t)
  OBVIOUS
<1> HIDE DEF S, r
<1>4. TasksAre(d, r)
  BY <1>2, <1>3, TasksIn
<1> QED
  BY <1>4 DEF r

(***************************************************************************)
(* The help flags are ahead: what is to be done before they are processed  *)
(* is early, what is after them late.                                      *)
(***************************************************************************)
Frames == {"parse", "parse_positionals"}
EarlyKinds == {"parse", "parse_positionals", "touch", "passed", "config", "env", "callbacks",
               "callback", "group", "subcommand", "items", "read", "asked_for", "default", "run_final"}
LateKinds == {"requirements", "extras", "run_final", "file_error", "return"}

IsRootFrame(d, t) == t.do \in Frames /\ t.of = d.root
Hasty(d, a) == /\ d.apps[a].parse_complete
               /\ (d.apps[a].name = Empty /\ a # d.root) \/ d.apps[a].configurable
EndsEarly(d, t) == t.do = "run_final" /\ ~Hasty(d, t.of)
IsEarly(d, t) == t.do \in EarlyKinds /\ ~IsRootFrame(d, t) /\ ~EndsEarly(d, t)
IsPivot(d, t) == IsRootFrame(d, t) \/ (t.do = "help" /\ t.of = d.root)
AllEarly(d, s) == \A t \in Range(s) : IsEarly(d, t)
AllLate(s) == \A t \in Range(s) : t.do \in LateKinds

HelpAhead(d, s) ==
  \E k \in 1 .. Len(s) :
    /\ IsPivot(d, s[k])
    /\ \A i \in 1 .. k - 1 : IsEarly(d, s[i])
    /\ \A i \in k + 1 .. Len(s) : s[i].do \in LateKinds

(* What may take the place of a task.                                      *)
Extends(d, h, tasks) == IF IsRootFrame(d, h) THEN HelpAhead(d, tasks) ELSE AllEarly(d, tasks)

(* An early task does not process the help flags of the root.              *)
LEMMA EarlyIsNoPivot ==
  ASSUME NEW d, NEW t, IsEarly(d, t)
  PROVE  ~IsPivot(d, t) /\ ~IsRootFrame(d, t)
BY DEF IsEarly, IsPivot, EarlyKinds

(* Early tasks before it, late ones after it: the help flags stay ahead.   *)
LEMMA HelpFollows ==
  ASSUME NEW d, NEW s, NEW t, IsSequence(s), IsSequence(t)
  PROVE  /\ AllEarly(d, s) /\ HelpAhead(d, t) => HelpAhead(d, s \o t)
         /\ HelpAhead(d, s) /\ AllLate(t) => HelpAhead(d, s \o t)
<1> DEFINE r == s \o t
<1>1. /\ Len(r) = Len(s) + Len(t) /\ Len(s) \in Nat /\ Len(t) \in Nat
      /\ \A i \in 1 .. Len(s) : r[i] = s[i]
      /\ \A i \in 1 .. Len(t) : r[Len(s) + i] = t[i]
      /\ \A i \in 1 .. Len(s) : s[i] \in Range(s)
      /\ \A i \in 1 .. Len(t) : t[i] \in Range(t)
  BY ConcatFacts, SequenceFacts
<1> HIDE DEF r
<1>2. ASSUME AllEarly(d, s), HelpAhead(d, t)
      PROVE  HelpAhead(d, r)
  <2>1. PICK k \in 1 .. Len(t) : /\ IsPivot(d, t[k])
                                 /\ \A i \in 1 .. k - 1 : IsEarly(d, t[i])
                                 /\ \A i \in k + 1 .. Len(t) : t[i].do \in LateKinds
    BY <1>2 DEF HelpAhead
  <2>2. Len(s) + k \in 1 .. Len(r) /\ r[Len(s) + k] = t[k]
    BY <1>1
  <2>3. ASSUME NEW i \in 1 .. (Len(s) + k) - 1
        PROVE  IsEarly(d, r[i])
    <3>1. CASE i <= Len(s)
      BY <1>1, <1>2, <3>1 DEF AllEarly
    <3>2. CASE i > Len(s)
      <4>1. i - Len(s) \in 1 .. k - 1 /\ i - Len(s) \in 1 .. Len(t) /\ i = Len(s) + (i - Len(s))
        BY <1>1, <3>2
      <4>2. r[i] = t[i - Len(s)]
        BY <1>1, <4>1
      <4> QED
        BY <2>1, <4>1, <4>2
    <3> QED
      BY <1>1, <3>1, <3>2
  <2>4. ASSUME NEW i \in (Len(s) + k) + 1 .. Len(r)
        PROVE  r[i].do \in LateKinds
    <3>1. i - Len(s) \in k + 1 .. Len(t) /\ i - Len(s) \in 1 .. Len(t) /\ i = Len(s) + (i - Len(s))
      BY <1>1
    <3>2. r[i] = t[i - Len(s)]
      BY <1>1, <3>1
    <3> QED
      BY <2>1, <3>1, <3>2
  <2> QED
    BY <2>1, <2>2, <2>3, <2>4 DEF HelpAhead
<1>3. ASSUME HelpAhead(d, s), AllLate(t)
      PROVE  HelpAhead(d, r)
  <2>1. PICK k \in 1 .. Len(s) : /\ IsPivot(d, s[k])
                                 /\ \A i \in 1 .. k - 1 : IsEarly(d, s[i])
                                 /\ \A i \in k + 1 .. Len(s) : s[i].do \in LateKinds
    BY <1>3 DEF HelpAhead
  <2>2. k \in 1 .. Len(r) /\ r[k] = s[k]
    BY <1>1
  <2>3. \A i \in 1 .. k - 1 : IsEarly(d, r[i])
    BY <1>1, <2>1
  <2>4. ASSUME NEW i \in k + 1 .. Len(r)
        PROVE  r[i].do \in LateKinds
    <3>1. CASE i <= Len(s)
      <4>1. i \in k + 1 .. Len(s) /\ i \in 1 .. Len(s)
        BY <1>1, <3>1
      <4> QED
        BY <1>1, <2>1, <4>1
    <3>2. CASE i > Len(s)
      <4>1. i - Len(s) \in 1 .. Len(t) /\ i = Len(s) + (i - Len(s))
        BY <1>1, <3>2
      <4>2. r[i] = t[i - Len(s)]
        BY <1>1, <4>1
      <4> QED
        BY <1>1, <1>3, <4>1, <4>2 DEF AllLate
    <3> QED
      BY <1>1, <3>1, <3>2
  <2> QED
    BY <2>1, <2>2, <2>3, <2>4 DEF HelpAhead
<1> QED
  BY <1>2, <1>3 DEF r

(* The first task is early, or it is the one that processes the help flags *)
(* or leads to it, and then those after it are late.                       *)
LEMMA HelpAheadHead ==
  ASSUME NEW d, NEW s, IsSequence(s), HelpAhead(d, s)
  PROVE  /\ s # <<>>
         /\ IsEarly(d, Head(s)) \/ IsPivot(d, Head(s))
         /\ IsPivot(d, Head(s)) => AllLate(Tail(s))
         /\ IsEarly(d, Head(s)) => HelpAhead(d, Tail(s))
<1>1. PICK k \in 1 .. Len(s) : /\ IsPivot(d, s[k])
                               /\ \A i \in 1 .. k - 1 : IsEarly(d, s[i])
                               /\ \A i \in k + 1 .. Len(s) : s[i].do \in LateKinds
  BY DEF HelpAhead
<1>2. s # <<>>
  BY EmptyFacts
<1> DEFINE t == Tail(s)
<1>3. /\ IsSequence(t) /\ Len(t) = Len(s) - 1 /\ Len(s) >= 1 /\ Len(s) \in Nat
      /\ \A i \in 1 .. Len(s) - 1 : t[i] = s[i + 1]
      /\ Head(s) = s[1] /\ DOMAIN t = 1 .. Len(t)
  BY <1>2, TailFacts, SequenceFacts
<1> HIDE DEF t
<1>4. CASE k = 1
  <2>1. ASSUME NEW x \in Range(t)
        PROVE  x.do \in LateKinds
    <3>1. PICK i \in DOMAIN t : x = t[i]
      BY DEF Range
    <3>2. i + 1 \in k + 1 .. Len(s) /\ x = s[i + 1]
      BY <1>3, <1>4, <3>1
    <3> QED
      BY <1>1, <3>2
  <2>2. IsPivot(d, Head(s)) /\ AllLate(t)
    BY <1>1, <1>3, <1>4, <2>1 DEF AllLate
  <2>3. ~IsEarly(d, Head(s))
    BY <2>2, EarlyIsNoPivot
  <2> QED
    BY <1>2, <2>2, <2>3 DEF t
<1>5. CASE k # 1
  <2>1. IsEarly(d, Head(s)) /\ 1 \in 1 .. k - 1
    BY <1>1, <1>3, <1>5
  <2>2. k - 1 \in 1 .. Len(t) /\ t[k - 1] = s[k]
    BY <1>3, <1>5
  <2>3. \A i \in 1 .. (k - 1) - 1 : IsEarly(d, t[i])
    <3> SUFFICES ASSUME NEW i \in 1 .. (k - 1) - 1 PROVE IsEarly(d, t[i])
      OBVIOUS
    <3>1. i + 1 \in 1 .. k - 1 /\ t[i] = s[i + 1]
      BY <1>3
    <3> QED
      BY <1>1, <3>1
  <2>4. \A i \in (k - 1) + 1 .. Len(t) : t[i].do \in LateKinds
    <3> SUFFICES ASSUME NEW i \in (k - 1) + 1 .. Len(t) PROVE t[i].do \in LateKinds
      OBVIOUS
    <3>1. i + 1 \in k + 1 .. Len(s) /\ t[i] = s[i + 1]
      BY <1>3
    <3> QED
      BY <1>1, <3>1
  <2>5. HelpAhead(d, t)
    BY <1>1, <2>2, <2>3, <2>4 DEF HelpAhead
  <2>6. ~IsPivot(d, Head(s))
    BY <2>1, EarlyIsNoPivot
  <2> QED
    BY <1>2, <2>1, <2>5, <2>6 DEF t
<1> QED
  BY <1>4, <1>5

(* A task is replaced by what may take its place.                          *)
LEMMA HelpStaysAhead ==
  ASSUME NEW d, NEW s, IsSequence(s), HelpAhead(d, s), Head(s).do # "help",
         NEW tasks, IsSequence(tasks), Extends(d, Head(s), tasks)
  PROVE  HelpAhead(d, tasks \o Tail(s))
<1>1. s # <<>> /\ (IsEarly(d, Head(s)) \/ IsPivot(d, Head(s)))
  BY HelpAheadHead
<1>2. IsSequence(Tail(s))
  BY <1>1, TailFacts
<1>3. CASE IsEarly(d, Head(s))
  <2>1. HelpAhead(d, Tail(s)) /\ AllEarly(d, tasks)
    BY <1>3, HelpAheadHead, EarlyIsNoPivot DEF Extends
  <2> QED
    BY <1>2, <2>1, HelpFollows
<1>4. CASE IsPivot(d, Head(s))
  <2>1. AllLate(Tail(s)) /\ HelpAhead(d, tasks)
    BY <1>4, HelpAheadHead DEF Extends, IsPivot
  <2> QED
    BY <1>2, <2>1, HelpFollows
<1> QED
  BY <1>1, <1>3, <1>4
-----------------------------------------------------------------------------
(* The rest of the state: sequences all through.                           *)
ItemsAre(s) == IsSequence(s) /\ \A item \in Range(s) : IsSequence(item.parents)
InputIs(in) == IsSequence(in.line) /\ \A file \in DOMAIN in.files : ItemsAre(in.files[file])

TypeInv ==
  /\ cli \in DOMAIN Interfaces /\ script \in Scripts(cli)
  /\ AppsAre(Definition, apps) /\ OptionsAre(Definition, options) /\ TasksAre(Definition, todo)
  /\ IsSequence(args) /\ ItemsAre(items) /\ InputIs(given)
  /\ IsSequence(outcomes) /\ Len(outcomes) <= Len(script)

(* No app has an immediate callback.                                       *)
Tame == \A a \in Apps : ~App(a).parse_complete

(* What a step may put in the place of the first task: the frame of the    *)
(* root is followed by itself or by what _process does, and before it, and *)
(* for any other task, comes nothing that returns or that calls final      *)
(* callbacks too early, nor another frame of the root.                     *)
Inner(d, t) == t.do # "return" /\ ~IsRootFrame(d, t) /\ ~EndsEarly(d, t)
AllInner(d, s) == \A t \in Range(s) : Inner(d, t)
EndsInFrame(s) ==
  /\ s # <<>> /\ IsRootFrame(Definition, s[Len(s)])
  /\ \A i \in 1 .. Len(s) - 1 : Inner(Definition, s[i])

Succeeds(tasks) ==
  /\ Tame => Extends(Definition, Head(todo), tasks)
  /\ IF IsRootFrame(Definition, Head(todo)) THEN EndsInFrame(tasks) \/ tasks = Ending(Root)
                                            ELSE AllInner(Definition, tasks)

(* What becomes of the call stack in a step that processes no help flags   *)
(* and looks for no complaint.                                             *)
Moved ==
  \/ todo' = todo /\ error' = error
  \/ \E tasks : /\ TasksAre(Definition, tasks) /\ Succeeds(tasks)
                /\ todo' = tasks \o Tail(todo) /\ error' = error
  \/ \E tasks : /\ TasksAre(Definition, tasks) /\ AllInner(Definition, tasks) /\ ~Tame
                /\ todo' = tasks \o todo /\ error' = error
  \/ todo' = <<Return>> /\ error' \notin Complaints \cup {"none"}
  \/ MissingFile

(* A step that puts some tasks in the place of the first one.              *)
LEMMA ThenMoves ==
  ASSUME NEW tasks, TasksAre(Definition, tasks), Succeeds(tasks), Then(tasks)
  PROVE  Moved
BY DEF Then, Moved

(* A step that throws something but a complaint.                           *)
LEMMA ThrowMoves ==
  ASSUME NEW e, Throw(e), e \notin Complaints \cup {"none"}
  PROVE  Moved
BY DEF Throw, Moved

(* What options throw is no complaint.                                     *)
LEMMA ErrorsOfOptions ==
  ASSUME cli \in DOMAIN Interfaces, NEW o \in DOMAIN Definition.options,
         NEW e \in Thrown(Opt(o))
  PROVE  e \notin Complaints
BY ThrowsAssumption DEF Complaints, Thrown, Opt, Definition

(* A step that goes on or throws what an option throws.                    *)
LEMMA RaiseMoves ==
  ASSUME cli \in DOMAIN Interfaces, NEW o \in DOMAIN Definition.options,
         NEW e \in Thrown(Opt(o)), NEW tasks, TasksAre(Definition, tasks),
         Succeeds(tasks), Raise(e, tasks)
  PROVE  Moved
BY ErrorsOfOptions, ThenMoves, ThrowMoves DEF Raise

(* The tasks that touch the groups an argument came through are early.     *)
LEMMA TasksTouch ==
  ASSUME cli \in DOMAIN Interfaces, NEW through \in Seq(Apps)
  PROVE  TasksAre(Definition, Touch(through)) /\ AllEarly(Definition, Touch(through))
<1> DEFINE S == {Task("touch", a) : a \in Apps}
<1>1. Touch(through) \in Seq(S)
  BY DEF Touch
<1>2. \A t \in S : IsTask(Definition, t) /\ IsEarly(Definition, t)
  BY Now DEF Task, IsTask, IsEarly, IsRootFrame, Frames, EarlyKinds, EndsEarly
<1> HIDE DEF S
<1> QED
  BY <1>1, <1>2, TasksIn, SequencesAre DEF AllEarly

(* No early task returns, or calls final callbacks too early.              *)
LEMMA EarlyIsInner ==
  ASSUME NEW d, NEW s, AllEarly(d, s)
  PROVE  AllInner(d, s)
BY DEF AllEarly, IsEarly, EarlyKinds, AllInner, Inner

(* No task may come in the place of any but the frame of the root.         *)
LEMMA NoTasks ==
  ASSUME TypeInv, todo # <<>>, ~IsRootFrame(Definition, Head(todo))
  PROVE  TasksAre(Definition, <<>>) /\ Succeeds(<<>>)
BY FewTasks, EmptyFacts DEF Extends, AllEarly, Succeeds, AllInner

(* Early tasks may come in the place of any but the frame of the root.     *)
LEMMA EarlyTasks ==
  ASSUME NEW tasks, TasksAre(Definition, tasks), AllEarly(Definition, tasks),
         ~IsRootFrame(Definition, Head(todo)), Then(tasks)
  PROVE  Moved
BY ThenMoves, EarlyIsInner DEF Extends, Succeeds

(* A frame is of an app, and it is the root's if the app is the root.      *)
LEMMA TheFrame ==
  ASSUME TypeInv, InFrame
  PROVE  /\ Of \in Apps /\ Head(todo).do \in Frames /\ todo # <<>>
         /\ IsRootFrame(Definition, Head(todo)) <=> Of = Root
         /\ IsRoot(Of) <=> Of = Root
<1>1. Head(todo).do \in Frames /\ todo # <<>>
  BY DEF InFrame, Doing, Frames
<1>2. IsTask(Definition, Head(todo))
  BY <1>1, TasksAhead DEF TypeInv
<1> QED
  BY <1>1, <1>2, Now, RootIs DEF TypeInv, IsTask, Of, IsRootFrame

(* A frame goes on, after some other tasks.                                *)
LEMMA FrameGoesOn ==
  ASSUME TypeInv, InFrame, NEW tasks, TasksAre(Definition, tasks), AllEarly(Definition, tasks),
         NEW mode, mode.do \in Frames, mode.of = Of
  PROVE  /\ TasksAre(Definition, tasks \o <<mode>>)
         /\ Succeeds(tasks \o <<mode>>)
<1>1. IsTask(Definition, mode)
  BY TheFrame, Now DEF IsTask, TypeInv, Frames
<1>2. TasksAre(Definition, <<mode>>) /\ IsSequence(<<mode>>) /\ Range(<<mode>>) = {mode} /\ Len(<<mode>>) = 1
      /\ IsSequence(tasks) /\ <<mode>>[1] = mode
  BY <1>1, FewTasks, OneFacts DEF TasksAre
<1>3. TasksAre(Definition, tasks \o <<mode>>)
  BY <1>2, TasksJoined
<1>6. AllInner(Definition, tasks)
  BY EarlyIsInner
<1>4. CASE Of = Root
  <2>1. IsRootFrame(Definition, mode)
    BY <1>4, Now DEF IsRootFrame, TypeInv
  <2>2. HelpAhead(Definition, <<mode>>)
    BY <1>2, <2>1 DEF HelpAhead, IsPivot
  <2>3. HelpAhead(Definition, tasks \o <<mode>>)
    BY <1>2, <2>2, HelpFollows
  <2>4. EndsInFrame(tasks \o <<mode>>)
    <3> DEFINE s == tasks \o <<mode>>
    <3>1. Len(s) = Len(tasks) + 1 /\ s[Len(tasks) + 1] = mode /\ \A i \in 1 .. Len(tasks) : s[i] = tasks[i]
      BY <1>2, ConcatFacts
    <3>2. Len(tasks) \in Nat /\ \A i \in 1 .. Len(tasks) : tasks[i] \in Range(tasks)
      BY <1>2, SequenceFacts
    <3> HIDE DEF s
    <3>3. \A i \in 1 .. Len(s) - 1 : Inner(Definition, s[i])
      BY <1>6, <3>1, <3>2 DEF AllInner
    <3> QED
      BY <2>1, <3>1, <3>2, <3>3, EmptyFacts DEF EndsInFrame, s
  <2> QED
    BY <1>3, <1>4, <2>3, <2>4, TheFrame DEF Extends, Succeeds
<1>5. CASE Of # Root
  <2>1. IsEarly(Definition, mode)
    BY <1>5, Now DEF IsEarly, IsRootFrame, EndsEarly, TypeInv, Frames, EarlyKinds
  <2>2. AllEarly(Definition, tasks \o <<mode>>)
    BY <1>2, <2>1, ConcatFacts DEF AllEarly
  <2> QED
    BY <1>3, <1>5, <2>2, TheFrame, EarlyIsInner DEF Extends, Succeeds
<1> QED
  BY <1>4, <1>5

(* A frame goes on as it was.                                              *)
LEMMA FrameAgain ==
  ASSUME TypeInv, InFrame, NEW mode, mode.do \in Frames, mode.of = Of
  PROVE  TasksAre(Definition, <<mode>>) /\ Succeeds(<<mode>>)
<1>1. TasksAre(Definition, <<>>) /\ AllEarly(Definition, <<>>)
  BY FewTasks, EmptyFacts DEF AllEarly
<1>2. <<>> \o <<mode>> = <<mode>>
  OBVIOUS
<1> QED
  BY <1>1, <1>2, FrameGoesOn

(* Whatever is left to do when all arguments are used: the help flags of   *)
(* the root app first.                                                     *)
LEMMA EndingTasks ==
  ASSUME TypeInv, InFrame
  PROVE  TasksAre(Definition, Ending(Of)) /\ Succeeds(Ending(Of))
<1>1. Of \in Apps /\ Root \in Apps /\ Apps = DOMAIN Definition.apps /\ Root = Definition.root
  BY TheFrame, Now DEF TypeInv
<1>2. \A do : do \notin {"passed", "callback", "group"} => IsTask(Definition, Task(do, Of))
  BY <1>1 DEF IsTask, Task
<1>3. CASE IsRoot(Of)
  <2> DEFINE s == <<Task("config", Of), Task("env", Of), Task("callbacks", Of), Task("help", Of),
                    Task("requirements", Of), Task("extras", Of), Task("run_final", Of)>>
             S == {Task("config", Of), Task("env", Of), Task("callbacks", Of), Task("help", Of),
                   Task("requirements", Of), Task("extras", Of), Task("run_final", Of)}
  <2>1. s \in Seq(S)
    OBVIOUS
  <2>2. \A t \in S : IsTask(Definition, t)
    BY <1>2
  <2>3. TasksAre(Definition, s)
    <3> HIDE DEF s, S
    <3> QED
      BY <2>1, <2>2, TasksIn
  <2>4. HelpAhead(Definition, s)
    <3>1. Len(s) = 7 /\ IsPivot(Definition, s[4])
      BY <1>1, <1>3, TheFrame DEF IsPivot, Task
    <3>2. \A i \in 1 .. 4 - 1 : IsEarly(Definition, s[i])
      BY DEF IsEarly, IsRootFrame, EndsEarly, EarlyKinds, Frames, Task
    <3>3. \A i \in 4 + 1 .. Len(s) : s[i].do \in LateKinds
      BY <3>1 DEF LateKinds, Task
    <3> HIDE DEF s
    <3>4. 4 \in 1 .. Len(s)
      BY <3>1
    <3> QED
      BY <3>1, <3>2, <3>3, <3>4 DEF HelpAhead
  <2>5. Ending(Of) = s
    BY <1>3 DEF Ending
  <2> HIDE DEF s
  <2> QED
    BY <1>3, <2>3, <2>4, <2>5, TheFrame DEF Extends, Succeeds
<1>4. CASE ~IsRoot(Of) /\ App(Of).parse_complete
  <2> DEFINE s == <<Task("env", Of), Task("callbacks", Of), Task("help", Of), Task("requirements", Of),
                    Task("run", Of)>>
             S == {Task("env", Of), Task("callbacks", Of), Task("help", Of), Task("requirements", Of),
                    Task("run", Of)}
  <2>1. s \in Seq(S)
    OBVIOUS
  <2>2. \A t \in S : IsTask(Definition, t)
    BY <1>2
  <2>3. TasksAre(Definition, s)
    <3> HIDE DEF s, S
    <3> QED
      BY <2>1, <2>2, TasksIn
  <2>4. Ending(Of) = s
    BY <1>4 DEF Ending
  <2>5. AllInner(Definition, s)
    <3>1. \A t \in S : Inner(Definition, t)
      BY DEF Task, Inner, IsRootFrame, Frames, EndsEarly
    <3> HIDE DEF s, S
    <3> QED
      BY <2>1, <3>1, SequencesAre DEF AllInner
  <2>6. ~IsRootFrame(Definition, Head(todo)) /\ ~Tame
    BY <1>1, <1>4, TheFrame DEF Tame
  <2> HIDE DEF s
  <2> QED
    BY <2>3, <2>4, <2>5, <2>6 DEF Succeeds
<1>5. CASE ~IsRoot(Of) /\ ~App(Of).parse_complete
  <2>1. Ending(Of) = <<>>
    BY <1>5 DEF Ending
  <2> QED
    BY <1>5, <2>1, TheFrame, NoTasks
<1> QED
  BY <1>3, <1>4, <1>5

(* An app that leaves the argument to its caller: the root goes on,        *)
(* another app does what is to be done at its end.                         *)
LEMMA LeaveMoves ==
  ASSUME TypeInv, InFrame, Leave
  PROVE  Moved
<1>1. CASE IsRoot(Of)
  <2>1. Then(<<Head(todo)>>)
    BY <1>1 DEF Leave
  <2> QED
    BY <2>1, TheFrame, FrameAgain, ThenMoves DEF Of
<1>2. CASE ~IsRoot(Of)
  <2>1. Then(Ending(Of))
    BY <1>2 DEF Leave
  <2> QED
    BY <2>1, EndingTasks, ThenMoves
<1> QED
  BY <1>1, <1>2
-----------------------------------------------------------------------------
(* What every step leaves in order, beside the call stack.                 *)
Kept ==
  /\ UNCHANGED <<cli, script>>
  /\ AppsAre(Definition, apps') /\ OptionsAre(Definition, options')
  /\ IsSequence(args') /\ ItemsAre(items') /\ InputIs(given')
  /\ IsSequence(outcomes') /\ Len(outcomes') <= Len(script)

(* _trigger_pre_parse leaves apps and options in order.                    *)
LEMMA TriggerKeeps ==
  ASSUME TypeInv, NEW a, NEW as, AppsAre(Definition, as), Trigger(a, as)
  PROVE  AppsAre(Definition, apps') /\ OptionsAre(Definition, options')
<1> DEFINE f == [o \in DOMAIN options |->
                   IF StartsAfresh(a, as) /\ o \in OptionsBelow(a) THEN Cleared(options[o]) ELSE options[o]]
<1>1. apps' = Triggered(a, as) /\ options' = f
  BY DEF Trigger
<1>2. OptionsAre(Definition, options) /\ DOMAIN options = DOMAIN Definition.options
  BY DEF TypeInv, OptionsAre
<1>3. \A o \in DOMAIN Definition.options : IsOptionState(f[o])
  <2>1. \A o \in DOMAIN Definition.options : IsOptionState(options[o]) /\ IsOptionState(Cleared(options[o]))
    BY <1>2, OptionSteps DEF OptionsAre
  <2> QED
    BY <1>2, <2>1
<1>4. f = [o \in DOMAIN options |-> f[o]]
  OBVIOUS
<1> HIDE DEF f
<1>5. OptionsAre(Definition, f)
  BY <1>2, <1>3, <1>4, OptionsChanged
<1> QED
  BY <1>1, <1>5, TriggeredAre

(* The beginning of _parse of an app leaves apps and options in order.     *)
LEMMA EnterKeeps ==
  ASSUME TypeInv, NEW a, NEW as, AppsAre(Definition, as), Enter(a, as)
  PROVE  AppsAre(Definition, apps') /\ OptionsAre(Definition, options')
BY IncrementedAre, TriggerKeeps DEF Enter

(* An option that was handed its values is an option.                      *)
LEMMA HandKeeps ==
  ASSUME TypeInv, NEW o, NEW outcome, o \in DOMAIN Definition.options => IsOptionState(outcome.option),
         Hand(o, outcome)
  PROVE  OptionsAre(Definition, options')
BY OptionsUpdated DEF Hand, TypeInv

(* An option that takes its values goes on or throws what it throws.       *)
LEMMA AcceptMoves ==
  ASSUME TypeInv, NEW o \in DOMAIN Definition.options, NEW outcome, IsOutcome(Opt(o), outcome),
         NEW tasks, TasksAre(Definition, tasks), Succeeds(tasks), Accept(o, outcome, tasks)
  PROVE  OptionsAre(Definition, options') /\ Moved
<1>1. OptionsAre(Definition, options')
  BY HandKeeps DEF Accept, IsOutcome
<1>2. outcome.error \in Thrown(Opt(o)) /\ Raise(outcome.error, tasks) /\ cli \in DOMAIN Interfaces
  BY DEF Accept, IsOutcome, TypeInv
<1>3. Moved
  BY <1>2, RaiseMoves
<1> QED
  BY <1>1, <1>3

(* An option that an app lists is one of the definition.                   *)
LEMMA OptionHeld ==
  ASSUME TypeInv, NEW a \in Apps, NEW o \in OptionsIn(Definition, a)
  PROVE  o \in DOMAIN Definition.options /\ IsOptionState(options[o])
BY Now, TreeIs DEF TypeInv, OptionsAre

(* _parse_positional, whichever place the argument has, leaves all in      *)
(* order.                                                                  *)
LEMMA PositionalMoves ==
  ASSUME TypeInv, InFrame, args # <<>>, NEW place \in Places, place.kind # "leave",
         NEW mode, mode.do \in Frames, mode.of = Of, positional(place, mode)
  PROVE  AppsAre(Definition, apps') /\ OptionsAre(Definition, options') /\ IsSequence(args') /\ Moved
<1> DEFINE o == place.option
           touch == Touch(place.through)
<1>1. /\ cli \in DOMAIN Interfaces /\ place.through \in Seq(Apps) /\ place.app \in Apps
      /\ place.kind \in {"option", "subcommand", "missing", "extras"}
  BY DEF Places, TypeInv
<1>2. TasksAre(Definition, touch) /\ AllEarly(Definition, touch)
  BY <1>1, TasksTouch
<1>3. /\ TasksAre(Definition, touch \o <<mode>>)
      /\ Succeeds(touch \o <<mode>>)
  <2> HIDE DEF touch
  <2> QED
    BY <1>2, FrameGoesOn
<1>4. IsSequence(args) /\ IsSequence(Tail(args)) /\ AppsAre(Definition, apps) /\ OptionsAre(Definition, options)
  BY TailFacts DEF TypeInv
<1>5. CASE place.kind = "option"
  <2>1. /\ Accept(o, acceptance(o, add_result(Opt(o), reception(o), Head(args))), touch \o <<mode>>)
        /\ apps' = Ordered(place.app, o, 1) /\ args' = Tail(args)
    BY <1>5 DEF positional
  <2>2. o \in OptionsIn(Definition, place.app)
    BY <1>5 DEF Places
  <2>3. o \in DOMAIN Definition.options /\ IsOptionState(options[o])
    BY <1>1, <2>2, OptionHeld
  <2>4. AppsAre(Definition, apps')
    BY <1>1, <1>4, <2>1, <2>2, OrderedAre, 1 \in Nat
  <2> DEFINE outcome == acceptance(o, add_result(Opt(o), reception(o), Head(args)))
  <2>5. IsOutcome(Opt(o), outcome)
    BY <2>3, Reception, OptionSteps, Acceptance
  <2> HIDE DEF outcome, touch, o
  <2>6. OptionsAre(Definition, options') /\ Moved
    <3>1. Accept(o, outcome, touch \o <<mode>>)
      BY <2>1 DEF outcome
    <3> QED
      BY <1>3, <2>3, <2>5, <3>1, AcceptMoves
  <2> QED
    BY <1>4, <2>1, <2>4, <2>6
<1>6. CASE place.kind = "subcommand"
  <2>1. /\ Enter(place.app, apps) /\ args' = Tail(args)
        /\ Then(<<Task("parse", place.app)>> \o touch \o <<mode>>)
    BY <1>6 DEF positional
  <2>2. place.app # Root
    BY <1>6 DEF Places
  <2> DEFINE new == Task("parse", place.app)
             before == <<new>> \o touch
  <2>3. IsTask(Definition, new) /\ IsEarly(Definition, new)
    BY <1>1, <2>2, Now DEF IsTask, IsEarly, IsRootFrame, EndsEarly, Frames, EarlyKinds, Task
  <2> HIDE DEF new, touch
  <2>4. TasksAre(Definition, <<new>>) /\ IsSequence(<<new>>) /\ Range(<<new>>) = {new} /\ IsSequence(touch)
    BY <1>2, <2>3, FewTasks, OneFacts DEF TasksAre
  <2>5. TasksAre(Definition, before) /\ AllEarly(Definition, before)
    BY <1>2, <2>3, <2>4, TasksJoined, ConcatFacts DEF AllEarly
  <2>6. Then(before \o <<mode>>)
    BY <2>1 DEF new
  <2> HIDE DEF before
  <2>7. Moved
    BY <2>5, <2>6, FrameGoesOn, ThenMoves
  <2> QED
    BY <1>4, <2>1, <2>7, EnterKeeps
<1>7. CASE place.kind = "missing"
  <2> DEFINE eaten == IF PrefixCommand(place.app) THEN args ELSE <<Head(args)>>
             m == apps[Keeper(place.app)].missing \o [i \in DOMAIN eaten |-> <<"NONE", eaten[i]>>]
  <2>1. /\ apps' = [apps EXCEPT ![Keeper(place.app)].missing = m]
        /\ args' = SubSeq(args, Len(eaten) + 1, Len(args))
        /\ Then(touch \o <<mode>>) /\ UNCHANGED options
    BY <1>7 DEF positional
  <2>2. Len(eaten) \in Nat /\ Len(args) \in Nat
    BY <1>4, OneFacts, SequenceFacts
  <2> HIDE DEF m, eaten, touch
  <2>3. AppsAre(Definition, apps')
    BY <1>4, <2>1, AppsMissing
  <2>4. IsSequence(args')
    <3>1. Len(eaten) + 1 \in Nat \ {0} /\ Len(args) \in 0 .. Len(args)
      BY <2>2
    <3> QED
      BY <1>4, <2>1, <3>1, PartFacts
  <2>5. Moved
    BY <1>3, <2>1, ThenMoves
  <2>6. OptionsAre(Definition, options')
    BY <1>4, <2>1
  <2> QED
    BY <2>3, <2>4, <2>5, <2>6
<1>8. CASE place.kind = "extras"
  <2>1. Throw("ExtrasError") /\ UNCHANGED <<apps, options, args>>
    BY <1>8 DEF positional, state
  <2>2. Moved
    BY <2>1, ThrowMoves DEF Complaints
  <2>3. AppsAre(Definition, apps') /\ OptionsAre(Definition, options') /\ IsSequence(args')
    BY <1>4, <2>1
  <2> QED
    BY <2>2, <2>3
<1> QED
  BY <1>1, <1>5, <1>6, <1>7, <1>8
-----------------------------------------------------------------------------
(* What a step does not write stays in order.                              *)
LEMMA AsBefore ==
  ASSUME TypeInv
  PROVE  /\ UNCHANGED apps => AppsAre(Definition, apps')
         /\ UNCHANGED options => OptionsAre(Definition, options')
         /\ UNCHANGED args => IsSequence(args')
         /\ UNCHANGED items => ItemsAre(items')
         /\ UNCHANGED given => InputIs(given')
         /\ UNCHANGED <<script, outcomes>> => IsSequence(outcomes') /\ Len(outcomes') <= Len(script)
         /\ UNCHANGED input => UNCHANGED <<cli, script, given>>
BY DEF TypeInv, input

(* The end of the arguments (_parse).                                      *)
LEMMA EndOfLineMoves ==
  ASSUME TypeInv, EndOfLine
  PROVE  Kept /\ Moved
<1>1. Moved
  BY EndingTasks, ThenMoves DEF EndOfLine
<1>2. Kept
  BY AsBefore DEF EndOfLine, state, Kept, input
<1> QED
  BY <1>1, <1>2

(* An argument that is looked at: by a frame, with others behind it.       *)
LEMMA Unfailing ==
  ASSUME TypeInv, NEW class, Classified(class)
  PROVE  /\ InFrame /\ args # <<>> /\ IsSequence(args) /\ IsSequence(Tail(args))
         /\ cli \in DOMAIN Interfaces /\ Of \in Apps
BY TailFacts, TheFrame DEF Classified, TypeInv

(* The positional mark (_parse_single).                                    *)
LEMMA PositionalMarkMoves ==
  ASSUME TypeInv, PositionalMark
  PROVE  Kept /\ Moved
<1>1. InFrame /\ IsSequence(Tail(args)) /\ args' = Tail(args)
  BY Unfailing DEF PositionalMark
<1>2. CASE Leave /\ UNCHANGED apps
  BY <1>1, <1>2, LeaveMoves, AsBefore DEF PositionalMark, Kept, input
<1>3. CASE /\ apps' = [apps EXCEPT ![Keeper(Of)].missing = Append(@, <<"POSITIONAL_MARK", Head(args)>>)]
           /\ Then(<<Task("parse_positionals", Of)>>)
  <2>1. Task("parse_positionals", Of).do \in Frames /\ Task("parse_positionals", Of).of = Of
    BY DEF Task, Frames
  <2>2. Moved
    BY <1>1, <1>3, <2>1, FrameAgain, ThenMoves
  <2>3. AppsAre(Definition, apps')
    BY <1>3, AppsMissing DEF TypeInv
  <2> QED
    BY <1>1, <2>2, <2>3, AsBefore DEF PositionalMark, Kept, input
<1> QED
  BY <1>2, <1>3 DEF PositionalMark

(* The end of a subcommand (_parse_single).                                *)
LEMMA SubcommandTerminatorMoves ==
  ASSUME TypeInv, SubcommandTerminator
  PROVE  Kept /\ Moved
BY Unfailing, LeaveMoves, AsBefore DEF SubcommandTerminator, Kept, input, state

(* The place of the next argument is a place.                              *)
LEMMA HereIs ==
  ASSUME TypeInv, NEW class, Classified(class)
  PROVE  Here \in Places
BY Unfailing, PositionalPlace DEF Here

(* An argument that names nothing (_parse_single, _parse_positional).      *)
LEMMA ParsePositionalMoves ==
  ASSUME TypeInv, ParsePositional
  PROVE  Kept /\ Moved
<1>1. InFrame /\ args # <<>> /\ Here \in Places /\ Classified("NONE")
  BY Unfailing, HereIs DEF ParsePositional
<1> DEFINE mode == IF App(Of).positionals_at_end THEN Task("parse_positionals", Of) ELSE Head(todo)
<1>2. mode.do \in Frames /\ mode.of = Of
  BY <1>1, TheFrame DEF Task, Frames, Of
<1>3. CASE Here.kind = "leave" /\ Leave /\ UNCHANGED <<state, args, effects>>
  BY <1>1, <1>3, LeaveMoves, AsBefore DEF ParsePositional, Kept, input, state
<1>4. CASE Here.kind # "leave" /\ positional(Here, mode)
  <2> HIDE DEF mode
  <2>1. AppsAre(Definition, apps') /\ OptionsAre(Definition, options') /\ IsSequence(args') /\ Moved
    BY <1>1, <1>2, <1>4, PositionalMoves
  <2> QED
    BY <2>1, AsBefore DEF ParsePositional, Kept, input
<1> QED
  BY <1>3, <1>4 DEF ParsePositional

(* A positional that is still required comes before a subcommand           *)
(* (_parse_subcommand).                                                    *)
LEMMA RequiredPositionalMoves ==
  ASSUME TypeInv, RequiredPositional
  PROVE  Kept /\ Moved
<1>1. InFrame /\ args # <<>> /\ Here \in Places /\ Classified("SUBCOMMAND")
  BY Unfailing, HereIs DEF RequiredPositional
<1>2. Head(todo).do \in Frames /\ Head(todo).of = Of
  BY <1>1, TheFrame DEF Of
<1>3. CASE Here.kind = "leave" /\ UNCHANGED <<state, args, todo, error, effects>>
  BY <1>3, AsBefore DEF RequiredPositional, Kept, input, state, Moved
<1>4. CASE Here.kind # "leave" /\ positional(Here, Head(todo))
  <2>1. AppsAre(Definition, apps') /\ OptionsAre(Definition, options') /\ IsSequence(args') /\ Moved
    BY <1>1, <1>2, <1>4, PositionalMoves
  <2> QED
    BY <2>1, AsBefore DEF RequiredPositional, Kept, input
<1> QED
  BY <1>3, <1>4 DEF RequiredPositional

(* A subcommand (_parse_subcommand).                                       *)
LEMMA SubcommandMoves ==
  ASSUME TypeInv, Subcommand
  PROVE  Kept /\ Moved
<1> DEFINE com == find_subcommand(Of, Head(args), TRUE, TRUE)
           over == GroupsOver(com, Of)
<1>1. InFrame /\ IsSequence(Tail(args)) /\ cli \in DOMAIN Interfaces /\ Of \in Apps /\ Of \in DOMAIN Definition.apps
      /\ AppsAre(Definition, apps)
  BY Unfailing, Now DEF Subcommand, TypeInv
<1>2. com = NoApp \/ com \in Under(Definition, Of)
  BY <1>1, FindSubcommand
<1>3. CASE com = NoApp
  <2>1. /\ UNCHANGED <<state, args, called>>
        /\ (IF IsRoot(Of) THEN Throw("HorribleError") ELSE Leave)
    BY <1>3 DEF Subcommand
  <2>2. Moved
    BY <1>1, <2>1, LeaveMoves, ThrowMoves DEF Complaints
  <2> QED
    BY <2>1, <2>2, AsBefore DEF Subcommand, Kept, input, state
<1>4. CASE com # NoApp
  <2> DEFINE listed == IF App(com).silent THEN apps
                       ELSE [apps EXCEPT ![Of].parsed_subcommands = Append(@, com)]
             new == Task("parse", com)
             passed == [i \in DOMAIN over |-> TaskWith("passed", over[i], com)]
             before == <<new>> \o passed
  <2>1. /\ args' = Tail(args) /\ Enter(com, listed)
        /\ Then(before \o <<Head(todo)>>)
    BY <1>4 DEF Subcommand
  <2>2. com \in Under(Definition, Of) /\ com \in Apps /\ com # Root
    BY <1>1, <1>2, <1>4, UnderParent, Now
  <2>3. over \in Seq(Under(Definition, Of)) /\ \A g \in Range(over) : com \in Under(Definition, g)
    BY <1>1, <2>2, GroupsOverFacts DEF GroupsBetween
  <2>4. IsTask(Definition, new) /\ IsEarly(Definition, new)
    BY <1>1, <2>2, Now DEF IsTask, IsEarly, IsRootFrame, EndsEarly, Frames, EarlyKinds, Task
  <2>5. AppsAre(Definition, listed)
    <3>1. AppsAre(Definition, [apps EXCEPT ![Of].parsed_subcommands = Append(@, com)])
      BY <1>1, <2>2, AppsListing
    <3> QED
      BY <1>1, <3>1
  <2> HIDE DEF com, listed
  <2>6. TasksAre(Definition, passed) /\ AllEarly(Definition, passed)
    <3> HIDE DEF over
    <3> DEFINE S == {TaskWith("passed", g, com) : g \in Range(over)}
    <3>1. IsSequence(over) /\ Range(over) \subseteq Under(Definition, Of)
      BY <2>3, SequencesAre
    <3>2. Range(over) \subseteq DOMAIN Definition.apps
      BY <1>1, <3>1, Now, UnderFacts
    <3>3. \A t \in S : IsTask(Definition, t) /\ IsEarly(Definition, t)
      BY <2>3, <3>2 DEF TaskWith, IsTask, IsEarly, IsRootFrame, EndsEarly, Frames, EarlyKinds
    <3>4. Len(over) \in Nat /\ DOMAIN over = 1 .. Len(over) /\ \A i \in DOMAIN over : over[i] \in Range(over)
      BY <3>1, SequenceFacts
    <3>5. passed \in Seq(S)
      BY <3>4
    <3> HIDE DEF S, passed
    <3> QED
      BY <3>3, <3>5, TasksIn, SequencesAre DEF AllEarly
  <2> HIDE DEF new, passed
  <2>7. TasksAre(Definition, before) /\ AllEarly(Definition, before)
    <3>1. TasksAre(Definition, <<new>>) /\ IsSequence(<<new>>) /\ Range(<<new>>) = {new} /\ IsSequence(passed)
      BY <2>4, <2>6, FewTasks, OneFacts DEF TasksAre
    <3> QED
      BY <2>4, <2>6, <3>1, TasksJoined, ConcatFacts DEF AllEarly
  <2> HIDE DEF before
  <2>8. Moved
    BY <1>1, <2>1, <2>7, TheFrame, FrameGoesOn, ThenMoves DEF Of
  <2>9. AppsAre(Definition, apps') /\ OptionsAre(Definition, options')
    BY <2>1, <2>5, EnterKeeps
  <2> QED
    BY <1>1, <2>1, <2>8, <2>9, AsBefore DEF Subcommand, Kept, input
<1> QED
  BY <1>3, <1>4

(* An option (_parse_arg).                                                 *)
LEMMA ParseArgMoves ==
  ASSUME TypeInv, ParseArg
  PROVE  Kept /\ Moved
<1>1. PICK class \in {"LONG", "SHORT", "WINDOWS_STYLE"} :
        LET split == SplitArg(Head(args), class) IN
        /\ Classified(class)
        /\ placed_arg(PlaceOfArg(Of, class, split.name), class, split)
  BY DEF ParseArg
<1> DEFINE split == SplitArg(Head(args), class)
           place == PlaceOfArg(Of, class, split.name)
           touch == Touch(place.through)
           o == place.option
<1>2. /\ InFrame /\ IsSequence(Tail(args)) /\ cli \in DOMAIN Interfaces /\ Of \in Apps
      /\ AppsAre(Definition, apps)
  BY <1>1, Unfailing DEF TypeInv
<1>3. place \in Places /\ place.kind \in {"option", "missing", "leave"}
  BY <1>2, ArgPlace DEF ArgPlaces
<1>4. placed_arg(place, class, split)
  BY <1>1
<1> HIDE DEF split, place
<1>5. place.through \in Seq(Apps)
  BY <1>3 DEF Places
<1>6. TasksAre(Definition, touch) /\ AllEarly(Definition, touch)
  BY <1>2, <1>5, TasksTouch
<1>7. TasksAre(Definition, touch \o <<Head(todo)>>) /\ Succeeds(touch \o <<Head(todo)>>)
  <2> HIDE DEF touch
  <2> QED
    BY <1>2, <1>6, TheFrame, FrameGoesOn DEF Of
<1>8. CASE place.kind = "option"
  <2> DEFINE gift == option_arg(place.app, o, split, Tail(args))
  <2>1. /\ Accept(o, gift.outcome, touch \o <<Head(todo)>>)
        /\ apps' = Ordered(place.app, o, gift.values) /\ args' = gift.left
    BY <1>4, <1>8 DEF placed_arg, Take
  <2>2. place.app \in Apps /\ o \in OptionsIn(Definition, place.app)
    BY <1>3, <1>8 DEF Places
  <2>3. o \in DOMAIN Definition.options /\ IsOptionState(options[o])
    BY <2>2, OptionHeld
  <2> HIDE DEF o, touch
  <2>4. IsOutcome(Opt(o), gift.outcome) /\ IsSequence(gift.left) /\ gift.values \in Nat
    BY <1>2, <2>3, OptionArg DEF IsGift
  <2> HIDE DEF gift
  <2>5. OptionsAre(Definition, options') /\ Moved
    BY <1>7, <2>1, <2>3, <2>4, AcceptMoves
  <2>6. AppsAre(Definition, apps')
    BY <1>2, <2>1, <2>2, <2>4, OrderedAre
  <2> QED
    BY <2>1, <2>4, <2>5, <2>6, AsBefore DEF ParseArg, Kept, input
<1>9. CASE place.kind = "missing"
  <2>1. /\ apps' = [apps EXCEPT ![Keeper(place.app)].missing = Append(@, <<class, Head(args)>>)]
        /\ args' = Tail(args) /\ Then(touch \o <<Head(todo)>>) /\ UNCHANGED options
    BY <1>4, <1>9 DEF placed_arg, Miss
  <2>2. AppsAre(Definition, apps')
    BY <1>2, <2>1, AppsMissing
  <2> HIDE DEF touch
  <2>3. Moved
    BY <1>7, <2>1, ThenMoves
  <2> QED
    BY <1>2, <2>1, <2>2, <2>3, AsBefore DEF ParseArg, Kept, input
<1>10. CASE place.kind = "leave"
  <2>1. UNCHANGED <<state, args, todo, error>>
    BY <1>4, <1>10 DEF placed_arg
  <2> QED
    BY <2>1, AsBefore DEF ParseArg, Kept, input, state, Moved
<1> QED
  BY <1>3, <1>8, <1>9, <1>10
-----------------------------------------------------------------------------
(* The first task is of an app.                                            *)
LEMMA TheTask ==
  ASSUME TypeInv, todo # <<>>
  PROVE  /\ Of \in Apps /\ IsTask(Definition, Head(todo)) /\ cli \in DOMAIN Interfaces
         /\ TasksAre(Definition, Tail(todo))
         /\ Head(todo).do \notin Frames => ~IsRootFrame(Definition, Head(todo))
<1>1. IsTask(Definition, Head(todo)) /\ TasksAre(Definition, Tail(todo)) /\ cli \in DOMAIN Interfaces
  BY TasksAhead DEF TypeInv
<1> QED
  BY <1>1, Now DEF IsTask, Of, IsRootFrame

(* The task is done, and nothing comes in its place.                       *)
LEMMA TaskDone ==
  ASSUME TypeInv, todo # <<>>, Head(todo).do \notin Frames, Then(<<>>)
  PROVE  Moved
BY TheTask, NoTasks, ThenMoves

(* Some early tasks come in its place.                                     *)
LEMMA TasksInstead ==
  ASSUME TypeInv, todo # <<>>, Head(todo).do \notin Frames, NEW tasks, TasksAre(Definition, tasks),
         AllEarly(Definition, tasks), Then(tasks)
  PROVE  Moved
BY TheTask, EarlyTasks

(* One early task.                                                         *)
LEMMA OneTask ==
  ASSUME cli \in DOMAIN Interfaces, NEW a \in Apps,
         NEW do \in EarlyKinds \ (Frames \cup {"passed", "callback", "group", "run_final"}), NEW arg
  PROVE  /\ TasksAre(Definition, <<Task(do, a)>>) /\ AllEarly(Definition, <<Task(do, a)>>)
         /\ TasksAre(Definition, <<TaskWith(do, a, arg)>>) /\ AllEarly(Definition, <<TaskWith(do, a, arg)>>)
<1>1. \A t \in {Task(do, a), TaskWith(do, a, arg)} : IsTask(Definition, t) /\ IsEarly(Definition, t)
  BY Now DEF Task, TaskWith, IsTask, IsEarly, IsRootFrame, EndsEarly
<1>2. \A t : IsTask(Definition, t) /\ IsEarly(Definition, t) =>
               TasksAre(Definition, <<t>>) /\ AllEarly(Definition, <<t>>)
  BY FewTasks, OneFacts DEF AllEarly
<1> QED
  BY <1>1, <1>2

(* Early tasks before early tasks are early.                               *)
LEMMA EarlyJoined ==
  ASSUME NEW d, NEW s, NEW t, TasksAre(d, s), AllEarly(d, s), TasksAre(d, t), AllEarly(d, t)
  PROVE  TasksAre(d, s \o t) /\ AllEarly(d, s \o t)
BY TasksJoined, ConcatFacts DEF TasksAre, AllEarly

(* A subcommand has parsed (_parse_subcommand, after _parse).              *)
LEMMA PassedMoves ==
  ASSUME TypeInv, Passed
  PROVE  Kept /\ Moved
<1> DEFINE com == Head(todo).arg
           listed == IF App(com).silent THEN apps
                     ELSE [apps EXCEPT ![Of].parsed_subcommands = Append(@, com)]
<1>1. todo # <<>> /\ Head(todo).do = "passed" /\ Head(todo).do \notin Frames
  BY DEF Passed, Doing, Frames
<1>2. Trigger(Of, listed) /\ Then(<<>>)
  BY DEF Passed
<1>3. Of \in Apps /\ com \in Under(Definition, Of) /\ cli \in DOMAIN Interfaces
  BY <1>1, TheTask DEF IsTask, Of
<1> HIDE DEF com
<1>4. AppsAre(Definition, listed)
  <2>1. AppsAre(Definition, [apps EXCEPT ![Of].parsed_subcommands = Append(@, com)])
    BY <1>3, Now, AppsListing DEF TypeInv
  <2> QED
    BY <2>1 DEF TypeInv
<1> HIDE DEF listed
<1>5. AppsAre(Definition, apps') /\ OptionsAre(Definition, options')
  BY <1>2, <1>4, TriggerKeeps
<1>6. Moved
  BY <1>1, <1>2, TaskDone
<1> QED
  BY <1>5, <1>6, AsBefore DEF Passed, Kept, input

(* A group counts what came through it (increment_parsed,                  *)
(* _trigger_pre_parse).                                                    *)
LEMMA TouchGroupMoves ==
  ASSUME TypeInv, TouchGroup
  PROVE  Kept /\ Moved
<1>1. todo # <<>> /\ Head(todo).do \notin Frames
  BY DEF TouchGroup, Doing, Frames
<1>2. Moved
  BY <1>1, TaskDone DEF TouchGroup
<1>3. AppsAre(Definition, apps') /\ OptionsAre(Definition, options')
  <2>1. AppsAre(Definition, apps)
    BY DEF TypeInv
  <2> QED
    BY <2>1, AsBefore, TriggerKeeps DEF TouchGroup, state
<1>4. UNCHANGED <<input, args, items, taken, outcomes>>
  BY DEF TouchGroup
<1> QED
  BY <1>2, <1>3, <1>4, AsBefore DEF Kept, input

(* What the reading of the names of the files throws is no complaint.      *)
LEMMA ReadingErrors ==
  ASSUME NEW opt, NEW s, s.state \in OptionStates
  PROVE  results_as(opt, s).error \in {"none", "ArgumentMismatch", "ValidationError"}
<1> DEFINE E == {"none", "ArgumentMismatch", "ValidationError"}
<1>1. \A values, out : Read(opt, values, out).error \in E
  BY DEF Read, Reading
<1>2. \A v : ReadValidated(opt, v).error \in E
  BY <1>1 DEF ReadValidated, Reading
<1>3. reduced_results(opt, s).error \in E
  BY <1>1, <1>2 DEF reduced_results, OptionStates, Reading
<1> QED
  BY <1>2, <1>3 DEF results_as, Reading

(* The names of the configuration files (_process_config_file).            *)
LEMMA ConfigMoves ==
  ASSUME TypeInv, process_config_file
  PROVE  Kept /\ Moved
<1> DEFINE o == App(Of).config
           names == ConfigNames(o)
<1>1. todo # <<>> /\ Head(todo).do \notin Frames
  BY DEF process_config_file, Doing, Frames
<1>2. Of \in Apps /\ cli \in DOMAIN Interfaces
  BY <1>1, TheTask
<1>3. Kept
  BY AsBefore DEF process_config_file, Quiet, Kept, state
<1>4. CASE o = NoOption
  BY <1>1, <1>3, <1>4, TaskDone DEF process_config_file
<1>5. CASE o # NoOption
  <2>1. o \in DOMAIN Definition.options
    BY <1>2, <1>5, Now DEF IsTree
  <2>2. names.error \in {"none", "ArgumentMismatch", "ValidationError"}
    <3>1. options[o].state \in OptionStates
      BY <2>1 DEF TypeInv, OptionsAre, IsOptionState
    <3> QED
      BY <3>1, ReadingErrors DEF ConfigNames
  <2>3. Configured(o, names)
    BY <1>5 DEF process_config_file
  <2> HIDE DEF o, names
  <2>4. \A do \in {"asked_for", "default"} : \A arg :
          /\ TasksAre(Definition, <<TaskWith(do, Of, arg)>>)
          /\ AllEarly(Definition, <<TaskWith(do, Of, arg)>>)
    BY <1>2, OneTask DEF EarlyKinds, Frames
  <2>5. \/ Throw(names.error) /\ names.error # "none"
        \/ MissingFile
        \/ Then(<<>>)
        \/ \E do \in {"asked_for", "default"} : \E arg : Then(<<TaskWith(do, Of, arg)>>)
    BY <2>3 DEF Configured
  <2>6. Throw(names.error) /\ names.error # "none" => Moved
    BY <2>2, ThrowMoves DEF Complaints
  <2>7. MissingFile => Moved
    BY DEF Moved
  <2>8. Then(<<>>) => Moved
    BY <1>1, TaskDone
  <2>9. ASSUME NEW do \in {"asked_for", "default"}, NEW arg, Then(<<TaskWith(do, Of, arg)>>)
        PROVE  Moved
    BY <1>1, <2>4, <2>9, TasksInstead
  <2>10. Moved
    BY <2>5, <2>6, <2>7, <2>8, <2>9
  <2> QED
    BY <1>3, <2>10
<1> QED
  BY <1>3, <1>4, <1>5

(* A configuration file is read, or missing (_process_config_file).        *)
LEMMA ReadFileMoves ==
  ASSUME TypeInv, ReadFile
  PROVE  Kept /\ Moved
<1> DEFINE files == Head(todo).arg
           file == Last(files)
           found == file \in DOMAIN given.files
           others == IF Len(files) = 1 THEN <<>> ELSE <<TaskWith(Head(todo).do, Of, Front(files))>>
           counted == IF Doing("default") THEN <<TaskWith("read", Of, file)>> ELSE <<>>
<1>1. todo # <<>> /\ Head(todo).do \in {"asked_for", "default"} /\ Head(todo).do \notin Frames
  BY DEF ReadFile, Doing, Frames
<1>2. Of \in Apps /\ cli \in DOMAIN Interfaces
  BY <1>1, TheTask
<1>3. ItemsAre(items')
  <2>1. ItemsAre(<<>>)
    BY EmptyFacts DEF ItemsAre
  <2>2. found => ItemsAre(given.files[file])
    BY DEF TypeInv, InputIs
  <2> QED
    BY <2>1, <2>2 DEF ReadFile
<1>4. Kept
  BY <1>3, AsBefore DEF ReadFile, Quiet, Kept, state
<1>5. TasksAre(Definition, <<>>) /\ AllEarly(Definition, <<>>)
  BY FewTasks, EmptyFacts DEF AllEarly
<1>6. TasksAre(Definition, others) /\ AllEarly(Definition, others)
  BY <1>1, <1>2, <1>5, OneTask DEF EarlyKinds, Frames
<1>7. TasksAre(Definition, counted) /\ AllEarly(Definition, counted)
  BY <1>2, <1>5, OneTask DEF EarlyKinds, Frames
<1>8. TasksAre(Definition, <<Task("items", Of)>>) /\ AllEarly(Definition, <<Task("items", Of)>>)
  BY <1>2, OneTask DEF EarlyKinds, Frames
<1>9. Then(<<Task("items", Of)>> \o counted \o others) \/ MissingFile \/ Then(others)
  BY DEF ReadFile
<1> HIDE DEF others, counted
<1>10. Then(<<Task("items", Of)>> \o counted \o others) => Moved
  BY <1>1, <1>6, <1>7, <1>8, EarlyJoined, TasksInstead
<1>11. Then(others) => Moved
  BY <1>1, <1>6, TasksInstead
<1>12. MissingFile => Moved
  BY DEF Moved
<1> QED
  BY <1>4, <1>9, <1>10, <1>11, <1>12

(* A default file counts as given once it is read.                         *)
LEMMA FileReadMoves ==
  ASSUME TypeInv, FileRead
  PROVE  Kept /\ Moved
<1> DEFINE o == App(Of).config
<1>1. todo # <<>> /\ Head(todo).do \notin Frames
  BY DEF FileRead, Doing, Frames
<1>2. Moved
  BY <1>1, TaskDone DEF FileRead
<1>3. options' = [options EXCEPT ![o] = add_result(Opt(o), options[o], Head(todo).arg)]
  BY DEF FileRead
<1>4. OptionsAre(Definition, options)
  BY DEF TypeInv
<1>5. o \in DOMAIN Definition.options => IsOptionState(add_result(Opt(o), options[o], Head(todo).arg))
  BY <1>4, OptionSteps DEF OptionsAre
<1> HIDE DEF o
<1>6. OptionsAre(Definition, options')
  BY <1>3, <1>4, <1>5, OptionsUpdated
<1> QED
  BY <1>2, <1>6, AsBefore DEF FileRead, Quiet, Kept

(* All items of the file are used (_parse_config).                         *)
LEMMA ItemsDoneMoves ==
  ASSUME TypeInv, ItemsDone
  PROVE  Kept /\ Moved
<1>1. todo # <<>> /\ Head(todo).do \notin Frames
  BY DEF ItemsDone, Doing, Frames
<1> QED
  BY <1>1, TaskDone, AsBefore DEF ItemsDone, Quiet, Kept, state

(* An item of the file: its app, if there is one, is an app.               *)
LEMMA TheItemIs ==
  ASSUME TypeInv, NextItem
  PROVE  /\ todo # <<>> /\ Head(todo).do \notin Frames /\ Of \in Apps /\ cli \in DOMAIN Interfaces
         /\ ItemsAre(items') /\ TheApp \in Apps \cup {NoApp}
<1>1. todo # <<>> /\ Head(todo).do \notin Frames /\ items # <<>> /\ items' = Tail(items)
  BY DEF NextItem, Doing, Frames
<1>2. Of \in Apps /\ cli \in DOMAIN Interfaces
  BY <1>1, TheTask
<1>3. IsSequence(items) /\ \A item \in Range(items) : IsSequence(item.parents)
  BY DEF TypeInv, ItemsAre
<1>4. ItemsAre(items')
  BY <1>1, <1>3, TailFacts DEF ItemsAre
<1>5. IsSequence(TheItem.parents)
  BY <1>1, <1>3, TailFacts DEF TheItem
<1>6. TheApp \in Apps \cup {NoApp}
  BY <1>2, <1>5, SequenceFacts, SectionFacts DEF TheApp
<1> QED
  BY <1>1, <1>2, <1>4, <1>6

(* An item that nothing is found for throws something but a complaint.     *)
LEMMA UnknownMoves ==
  ASSUME Unknown
  PROVE  Moved
BY ThrowMoves DEF Unknown, Complaints, Moved

(* An item that no app or option is found for (_parse_single_config).      *)
LEMMA UnknownItemMoves ==
  ASSUME TypeInv, UnknownItem
  PROVE  Kept /\ Moved
<1>1. Moved
  BY UnknownMoves DEF UnknownItem
<1>2. AppsAre(Definition, apps')
  BY AppsMissing DEF UnknownItem, TypeInv
<1> QED
  BY <1>1, <1>2, TheItemIs, AsBefore DEF UnknownItem, NextItem, Quiet, Kept

(* A section opens (_parse_single_config).                                 *)
LEMMA OpenSectionMoves ==
  ASSUME TypeInv, OpenSection
  PROVE  Kept /\ Moved
<1>1. Moved
  BY DEF OpenSection, Moved
<1>2. TheApp \in Apps /\ cli \in DOMAIN Interfaces /\ ItemsAre(items') /\ AppsAre(Definition, apps)
  BY TheItemIs DEF OpenSection, TypeInv
<1> DEFINE listed == IF IsRoot(TheApp) THEN apps
                     ELSE [apps EXCEPT ![App(TheApp).parent].parsed_subcommands = Append(@, TheApp)]
<1>3. AppsAre(Definition, listed)
  <2>1. ~IsRoot(TheApp) => App(TheApp).parent \in Apps /\ TheApp \in Under(Definition, App(TheApp).parent)
    BY <1>2, RootIs
  <2>2. ~IsRoot(TheApp) =>
          AppsAre(Definition, [apps EXCEPT ![App(TheApp).parent].parsed_subcommands = Append(@, TheApp)])
    BY <1>2, <2>1, Now, AppsListing
  <2> QED
    BY <1>2, <2>2
<1>4. Enter(TheApp, listed) \/ UNCHANGED <<state, called>>
  BY DEF OpenSection
<1> HIDE DEF listed
<1>5. AppsAre(Definition, apps') /\ OptionsAre(Definition, options')
  BY <1>3, <1>4, EnterKeeps, AsBefore DEF state
<1> QED
  BY <1>1, <1>2, <1>5, AsBefore DEF OpenSection, NextItem, Quiet, Kept

(* A section closes (_parse_single_config).                                *)
LEMMA CloseSectionMoves ==
  ASSUME TypeInv, CloseSection
  PROVE  Kept /\ Moved
<1>1. TheApp \in Apps /\ cli \in DOMAIN Interfaces /\ ItemsAre(items')
  BY TheItemIs DEF CloseSection
<1> DEFINE tasks == <<Task("callbacks", TheApp), Task("requirements", TheApp), Task("run_final", TheApp)>>
           S == {Task("callbacks", TheApp), Task("requirements", TheApp), Task("run_final", TheApp)}
<1>2. tasks \in Seq(S)
  OBVIOUS
<1>3. \A t \in S : IsTask(Definition, t)
  BY <1>1, Now DEF Task, IsTask
<1>4. TasksAre(Definition, tasks)
  <2> HIDE DEF tasks, S
  <2> QED
    BY <1>2, <1>3, TasksIn
<1>5. /\ error' = error
      /\ todo' = todo \/ (App(TheApp).parse_complete /\ App(TheApp).configurable /\ todo' = tasks \o todo)
  BY DEF CloseSection
<1>6. Hasty(Definition, TheApp) => AllInner(Definition, tasks)
  <2>1. Hasty(Definition, TheApp) => \A t \in S : Inner(Definition, t)
    BY DEF Task, Inner, IsRootFrame, Frames, EndsEarly
  <2> HIDE DEF tasks, S
  <2> QED
    BY <1>2, <2>1, SequencesAre DEF AllInner
<1> HIDE DEF tasks
<1>7. Moved
  <2>1. App(TheApp).parse_complete /\ App(TheApp).configurable => Hasty(Definition, TheApp) /\ ~Tame
    BY <1>1, Now DEF Hasty, Tame
  <2> QED
    BY <1>4, <1>5, <1>6, <2>1 DEF Moved
<1> QED
  BY <1>1, <1>7, AsBefore DEF CloseSection, NextItem, Quiet, Kept, state

(* The option of an item is one of the definition, or there is none.       *)
LEMMA OptionOfItemIs ==
  ASSUME cli \in DOMAIN Interfaces, NEW a \in Apps, NEW item
  PROVE  OptionOfItem(a, item) \in AnyOption
<1> DEFINE names == << <<"-", "-">> \o item.name >>
                    \o (IF Len(item.name) = 1 THEN << <<"-">> \o item.name >> ELSE <<>>)
                    \o << item.name >>
           found == [i \in DOMAIN names |-> get_option_no_throw(a, names[i])]
           places == {i \in DOMAIN found : found[i] # NoOption}
<1>1. OptionOfItem(a, item) = At(found, places, NoOption)
  BY DEF OptionOfItem, First
<1>2. IsSequence(names)
  <2>1. \A x : IsSequence(<<x>>)
    BY OneFacts
  <2>2. IsSequence(IF Len(item.name) = 1 THEN << <<"-">> \o item.name >> ELSE <<>>)
    BY <2>1, EmptyFacts
  <2> QED
    BY <2>1, <2>2, ConcatFacts
<1> HIDE DEF names
<1>3. Len(names) \in Nat /\ DOMAIN names = 1 .. Len(names)
  BY <1>2, SequenceFacts
<1>4. \A i \in DOMAIN found : found[i] \in AnyOption
  BY GetOption
<1>5. found \in Seq(AnyOption)
  BY <1>3, <1>4
<1>6. IsSequence(found) /\ places \subseteq DOMAIN found
  BY <1>5, SequencesAre
<1> HIDE DEF found, places
<1>7. \/ At(found, places, NoOption) = NoOption
      \/ \E i \in places : At(found, places, NoOption) = found[i]
  BY <1>6, AtFacts
<1> QED
  BY <1>1, <1>4, <1>6, <1>7 DEF AnyOption

(* An item gives its option values (_parse_single_config).                 *)
LEMMA OptionItemMoves ==
  ASSUME TypeInv, OptionItem
  PROVE  Kept /\ Moved
<1> DEFINE o == OptionOfItem(TheApp, TheItem)
           opt == Opt(o)
<1>1. /\ TheApp \in Apps /\ cli \in DOMAIN Interfaces /\ ItemsAre(items') /\ OptionsAre(Definition, options)
      /\ ItemFor(o)
  BY TheItemIs DEF OptionItem, TypeInv
<1>2. o \in DOMAIN Definition.options
  BY <1>1, OptionOfItemIs DEF ItemFor, AnyOption
<1> HIDE DEF o
<1>3. IsOptionState(options[o])
  BY <1>1, <1>2 DEF OptionsAre
<1>4. ASSUME UNCHANGED <<options, todo, error, taken>>
      PROVE  OptionsAre(Definition, options') /\ Moved
  BY <1>4, AsBefore DEF Moved
<1>5. ASSUME NEW e \in {"ConfigError", "ArgumentMismatch", "ConversionError"}, Throw(e)
      PROVE  Moved
  BY <1>5, ThrowMoves DEF Complaints
<1>6. ASSUME NEW flag, FlagItem(o, flag)
      PROVE  OptionsAre(Definition, options') /\ Moved
  <2>1. IsOptionState(add_result(Opt(o), options[o], flag.value))
    BY <1>3, OptionSteps
  <2>2. OptionsAre(Definition, options')
    BY <1>1, <1>6, <2>1, OptionsUpdated DEF FlagItem
  <2>3. Moved
    BY <1>5, <1>6 DEF FlagItem, Moved
  <2> QED
    BY <2>2, <2>3
<1>7. ASSUME NEW outcome, IsOutcome(Opt(o), outcome), ValueItem(o, outcome)
      PROVE  OptionsAre(Definition, options') /\ Moved
  <2>1. OptionsAre(Definition, options')
    BY <1>7, HandKeeps DEF ValueItem, IsOutcome
  <2>2. outcome.error \notin Complaints
    BY <1>1, <1>2, <1>7, ErrorsOfOptions DEF IsOutcome
  <2>3. Moved
    BY <1>7, <2>2, ThrowMoves DEF ValueItem, Moved
  <2> QED
    BY <2>1, <2>3
<1>8. ASSUME NEW inputs, Fill(o, inputs)
      PROVE  OptionsAre(Definition, options') /\ Moved
  <2> DEFINE outcome == run_callback(Opt(o), add_results(Opt(o), options[o], inputs))
             e == IF items_expected_max(Opt(o)) > 1 THEN "ArgumentMismatch" ELSE "ConversionError"
  <2>1. IsOutcome(Opt(o), outcome)
    BY <1>3, OptionSteps, RunCallback
  <2>2. \/ \E flag : FlagItem(o, flag)
        \/ Throw(e) /\ UNCHANGED <<options, taken>>
        \/ ValueItem(o, outcome)
    BY <1>8 DEF Fill
  <2>3. e \in {"ArgumentMismatch", "ConversionError"}
    OBVIOUS
  <2> HIDE DEF outcome, e
  <2> QED
    BY <1>5, <1>6, <1>7, <2>1, <2>2, <2>3, AsBefore
<1>9. OptionsAre(Definition, options') /\ Moved
  <2>1. \/ (Unknown \/ Throw("ConfigError")) /\ UNCHANGED <<options, taken>>
        \/ UNCHANGED <<options, todo, error, taken>>
        \/ Fill(o, TheItem.inputs)
    BY <1>1 DEF ItemFor
  <2> QED
    BY <1>4, <1>5, <1>8, <2>1, UnknownMoves, AsBefore
<1> QED
  BY <1>1, <1>9, AsBefore DEF OptionItem, NextItem, Quiet, Kept
-----------------------------------------------------------------------------
(* The environment gives options values (_process_env).                    *)
LEMMA EnvMoves ==
  ASSUME TypeInv, process_env
  PROVE  Kept /\ Moved
<1> DEFINE f == [o \in DOMAIN options |->
             IF (\E a \in EnvApps(Of) : o \in Range(App(a).options)) /\ FromEnv(o)
               THEN add_result(Opt(o), options[o], given.env[Opt(o).envname]) ELSE options[o]]
<1>1. todo # <<>> /\ Head(todo).do \notin Frames
  BY DEF process_env, Doing, Frames
<1>2. Moved
  BY <1>1, TaskDone DEF process_env
<1>3. OptionsAre(Definition, options) /\ DOMAIN options = DOMAIN Definition.options
  BY DEF TypeInv, OptionsAre
<1>4. \A o \in DOMAIN Definition.options : IsOptionState(f[o])
  <2>1. \A o \in DOMAIN Definition.options : IsOptionState(options[o])
    BY <1>3 DEF OptionsAre
  <2>2. \A o \in DOMAIN Definition.options :
          IsOptionState(add_result(Opt(o), options[o], given.env[Opt(o).envname]))
    BY <2>1, OptionSteps
  <2> QED
    BY <1>3, <2>1, <2>2
<1>5. f = [o \in DOMAIN options |-> f[o]]
  OBVIOUS
<1>6. options' = f
  BY DEF process_env
<1> HIDE DEF f
<1>7. OptionsAre(Definition, options')
  BY <1>3, <1>4, <1>5, <1>6, OptionsChanged
<1>8. Quiet /\ UNCHANGED <<apps, items>>
  BY DEF process_env
<1> QED
  BY <1>2, <1>7, <1>8, AsBefore DEF Quiet, Kept

(* A task for each app that an app lists.                                  *)
LEMMA TasksForSubs ==
  ASSUME cli \in DOMAIN Interfaces, NEW a \in Apps,
         NEW do \in EarlyKinds \ (Frames \cup {"passed", "callback", "run_final"})
  PROVE  LET tasks == [i \in DOMAIN App(a).subs |-> Task(do, App(a).subs[i])]
         IN  TasksAre(Definition, tasks) /\ AllEarly(Definition, tasks)
<1> DEFINE subs == App(a).subs
           tasks == [i \in DOMAIN subs |-> Task(do, subs[i])]
           S == {Task(do, sub) : sub \in Range(subs)}
<1>1. IsSequence(subs) /\ Range(subs) \subseteq Apps \ {Root}
  BY Now, TreeIs DEF SubsIn
<1>2. Len(subs) \in Nat /\ DOMAIN subs = 1 .. Len(subs) /\ \A i \in DOMAIN subs : subs[i] \in Range(subs)
  BY <1>1, SequenceFacts
<1>3. \A t \in S : IsTask(Definition, t) /\ IsEarly(Definition, t)
  BY <1>1, Now DEF Task, IsTask, IsEarly, IsRootFrame, EndsEarly
<1> HIDE DEF subs
<1>4. tasks \in Seq(S)
  BY <1>2
<1> HIDE DEF tasks, S
<1>5. TasksAre(Definition, tasks) /\ AllEarly(Definition, tasks)
  BY <1>3, <1>4, TasksIn, SequencesAre DEF AllEarly
<1> QED
  BY <1>5 DEF tasks, subs

(* A callback for each option of an app.                                   *)
LEMMA TasksForOptions ==
  ASSUME cli \in DOMAIN Interfaces, NEW a \in Apps
  PROVE  LET own == App(a).options
             tasks == [i \in DOMAIN own |-> TaskWith("callback", a, own[i])]
         IN  TasksAre(Definition, tasks) /\ AllEarly(Definition, tasks)
<1> DEFINE own == App(a).options
           tasks == [i \in DOMAIN own |-> TaskWith("callback", a, own[i])]
           S == {TaskWith("callback", a, o) : o \in Range(own)}
<1>1. IsSequence(own) /\ Range(own) \subseteq DOMAIN Definition.options
  BY Now, TreeIs DEF OptionsIn
<1>2. Len(own) \in Nat /\ DOMAIN own = 1 .. Len(own) /\ \A i \in DOMAIN own : own[i] \in Range(own)
  BY <1>1, SequenceFacts
<1>3. \A t \in S : IsTask(Definition, t) /\ IsEarly(Definition, t)
  BY <1>1, Now DEF TaskWith, IsTask, IsEarly, IsRootFrame, EndsEarly, EarlyKinds, Frames
<1> HIDE DEF own
<1>4. tasks \in Seq(S)
  BY <1>2
<1> HIDE DEF tasks, S
<1>5. TasksAre(Definition, tasks) /\ AllEarly(Definition, tasks)
  BY <1>3, <1>4, TasksIn, SequencesAre DEF AllEarly
<1> QED
  BY <1>5 DEF tasks, own

(* The callbacks of options, groups and subcommands are listed             *)
(* (_process_callbacks).                                                   *)
LEMMA CallbacksMove ==
  ASSUME TypeInv, process_callbacks
  PROVE  Kept /\ Moved
<1> DEFINE ForSubs(do) == [i \in DOMAIN App(Of).subs |-> Task(do, App(Of).subs[i])]
           groups == ForSubs("group")
           own == [i \in DOMAIN App(Of).options |-> TaskWith("callback", Of, App(Of).options[i])]
           subs == ForSubs("subcommand")
<1>1. todo # <<>> /\ Head(todo).do \notin Frames
  BY DEF process_callbacks, Doing, Frames
<1>2. Of \in Apps /\ cli \in DOMAIN Interfaces
  BY <1>1, TheTask
<1>3. Then(groups \o own \o subs) /\ Quiet /\ UNCHANGED <<state, items>>
  BY DEF process_callbacks
<1>4. TasksAre(Definition, groups) /\ AllEarly(Definition, groups)
  BY <1>2, TasksForSubs DEF EarlyKinds, Frames
<1>5. TasksAre(Definition, own) /\ AllEarly(Definition, own)
  BY <1>2, TasksForOptions
<1>6. TasksAre(Definition, subs) /\ AllEarly(Definition, subs)
  BY <1>2, TasksForSubs DEF EarlyKinds, Frames
<1> HIDE DEF groups, own, subs
<1>7. TasksAre(Definition, groups \o own \o subs) /\ AllEarly(Definition, groups \o own \o subs)
  BY <1>4, <1>5, <1>6, EarlyJoined
<1>8. Moved
  BY <1>1, <1>3, <1>7, TasksInstead
<1> QED
  BY <1>3, <1>8, AsBefore DEF Quiet, Kept, state

(* The callbacks of a group (_process_callbacks).                          *)
LEMMA GroupMoves ==
  ASSUME TypeInv, ProcessGroup
  PROVE  Kept /\ Moved
<1> DEFINE tasks == <<Task("callbacks", Of), Task("run_final", Of)>>
<1>1. todo # <<>> /\ Head(todo).do \notin Frames
  BY DEF ProcessGroup, Doing, Frames
<1>2. Of \in Apps /\ cli \in DOMAIN Interfaces
  BY <1>1, TheTask
<1>3. /\ Quiet /\ UNCHANGED <<state, items>>
      /\ (Nameless(Of) /\ App(Of).parse_complete /\ Then(tasks)) \/ Then(<<>>)
  BY DEF ProcessGroup
<1>4. ASSUME Nameless(Of), App(Of).parse_complete
      PROVE  TasksAre(Definition, tasks) /\ AllEarly(Definition, tasks)
  <2> DEFINE S == {Task("callbacks", Of), Task("run_final", Of)}
  <2>1. Of # Root
    BY <1>1, <1>2, TheTask, Now DEF ProcessGroup, Doing, IsTask, Of
  <2>2. Hasty(Definition, Of)
    BY <1>2, <1>4, <2>1, Now DEF Hasty, Nameless
  <2>3. \A t \in S : IsTask(Definition, t) /\ IsEarly(Definition, t)
    BY <1>2, <2>2, Now DEF Task, IsTask, IsEarly, IsRootFrame, Frames, EarlyKinds, EndsEarly
  <2>4. tasks \in Seq(S)
    OBVIOUS
  <2> HIDE DEF S, tasks
  <2> QED
    BY <2>3, <2>4, TasksIn, SequencesAre DEF AllEarly
<1> HIDE DEF tasks
<1>5. Moved
  BY <1>1, <1>3, <1>4, TasksInstead, TaskDone
<1> QED
  BY <1>3, <1>5, AsBefore DEF Quiet, Kept, state

(* The callbacks of a subcommand (_process_callbacks).                     *)
LEMMA SubcommandProcessed ==
  ASSUME TypeInv, ProcessSubcommand
  PROVE  Kept /\ Moved
<1>1. todo # <<>> /\ Head(todo).do \notin Frames
  BY DEF ProcessSubcommand, Doing, Frames
<1>2. Of \in Apps /\ cli \in DOMAIN Interfaces
  BY <1>1, TheTask
<1>3. Quiet /\ UNCHANGED <<state, items>> /\ (Then(<<Task("callbacks", Of)>>) \/ Then(<<>>))
  BY DEF ProcessSubcommand
<1>4. TasksAre(Definition, <<Task("callbacks", Of)>>) /\ AllEarly(Definition, <<Task("callbacks", Of)>>)
  BY <1>2, OneTask DEF EarlyKinds, Frames
<1>5. Moved
  BY <1>1, <1>3, <1>4, TasksInstead, TaskDone
<1> QED
  BY <1>3, <1>5, AsBefore DEF Quiet, Kept, state

(* The callback of an option (run_callback).                               *)
LEMMA OptionCallbackMoves ==
  ASSUME TypeInv, OptionCallback
  PROVE  Kept /\ Moved
<1> DEFINE o == Head(todo).arg
           outcome == run_callback(Opt(o), options[o])
<1>1. todo # <<>> /\ Head(todo).do = "callback" /\ Head(todo).do \notin Frames
  BY DEF OptionCallback, Doing, Frames
<1>2. o \in DOMAIN Definition.options
  BY <1>1, TheTask DEF IsTask
<1>3. Quiet /\ UNCHANGED <<apps, items>> /\ (Accept(o, outcome, <<>>) \/ (Then(<<>>) /\ UNCHANGED <<options, taken>>))
  BY DEF OptionCallback
<1> HIDE DEF o
<1>4. IsOutcome(Opt(o), outcome)
  BY <1>2, RunCallback DEF TypeInv, OptionsAre
<1> HIDE DEF outcome
<1>5. TasksAre(Definition, <<>>) /\ Succeeds(<<>>)
  BY <1>1, TheTask, NoTasks
<1>6. OptionsAre(Definition, options') /\ Moved
  BY <1>1, <1>2, <1>3, <1>4, <1>5, AcceptMoves, TaskDone, AsBefore
<1> QED
  BY <1>3, <1>6, AsBefore DEF Quiet, Kept

(* The callbacks of an app (run_callback).                                 *)
LEMMA RunMoves ==
  ASSUME TypeInv, RunCallbacks
  PROVE  Kept /\ Moved
<1>1. todo # <<>> /\ Head(todo).do \notin Frames
  BY DEF RunCallbacks, Doing, Frames
<1>2. Then(<<>>) /\ Quiet /\ UNCHANGED <<state, items>>
  BY DEF RunCallbacks
<1> QED
  BY <1>1, <1>2, TaskDone, AsBefore DEF Quiet, Kept, state

(* The steps that may complain, and the return.                            *)
Judges == process_help_flags \/ process_requirements \/ process_extras \/ FileError

(* Each of them goes on with the next task or throws, and leaves apps and  *)
(* options alone.                                                          *)
LEMMA JudgesKeep ==
  ASSUME TypeInv, Judges
  PROVE  /\ Kept /\ todo # <<>> /\ UNCHANGED <<apps, options>>
         /\ \/ todo' = Tail(todo) /\ error' = error
            \/ todo' = <<Return>> /\ error' # "none"
<1>1. todo # <<>> /\ UNCHANGED <<apps, options>> /\ Quiet /\ UNCHANGED items
  BY DEF Judges, process_help_flags, process_requirements, process_extras, FileError, state, Doing
<1>2. Then(<<>>) \/ \E e : e # "none" /\ Throw(e)
  BY DEF Judges, process_help_flags, process_requirements, process_extras, FileError, Raise
<1>3. IsSequence(Tail(todo))
  BY <1>1, TailFacts DEF TypeInv, TasksAre
<1>4. \/ todo' = Tail(todo) /\ error' = error
      \/ todo' = <<Return>> /\ error' # "none"
  BY <1>2, <1>3, NothingFirst DEF Then, Throw
<1> QED
  BY <1>1, <1>4, AsBefore DEF Quiet, Kept

(* A parse returns: the program has one more outcome.                      *)
LEMMA ReturnKeeps ==
  ASSUME TypeInv, Returned, Len(outcomes) < Len(script)
  PROVE  Kept /\ todo' = <<>>
<1>1. outcomes' = Append(outcomes, Result) /\ todo' = <<>>
  BY DEF Returned
<1>2. IsSequence(outcomes') /\ Len(outcomes') = Len(outcomes) + 1
  <2>1. Append(outcomes, Result) = outcomes \o <<Result>>
    <3>1. outcomes \in Seq(Range(outcomes) \cup {Result})
      BY DEF TypeInv, IsSequence
    <3> HIDE DEF Result
    <3> QED
      BY <3>1
  <2> QED
    BY <1>1, <2>1, ConcatFacts, OneFacts DEF TypeInv
<1>3. Len(outcomes) \in Nat /\ Len(script) \in Nat
  BY SequenceFacts, ScriptsAssumption DEF TypeInv
<1> QED
  BY <1>1, <1>2, <1>3, AsBefore DEF Returned, Kept, state, input
-----------------------------------------------------------------------------
(* The next input of the program.                                          *)
LEMMA NextInput ==
  ASSUME TypeInv, Len(outcomes) < Len(script)
  PROVE  InputIs(script[Len(outcomes) + 1])
<1>1. IsSequence(script) /\ \A in \in Range(script) : InputIs(in)
  BY ScriptsAssumption DEF TypeInv, InputIs, ItemsAre
<1>2. Len(outcomes) \in Nat /\ Len(script) \in Nat /\ \A i \in 1 .. Len(script) : script[i] \in Range(script)
  BY <1>1, SequenceFacts DEF TypeInv
<1>3. Len(outcomes) + 1 \in 1 .. Len(script)
  BY <1>2
<1> QED
  BY <1>1, <1>2, <1>3

(* clear leaves apps and options in order.                                 *)
LEMMA ClearIs ==
  ASSUME TypeInv
  PROVE  AppsAre(Definition, clear.apps) /\ OptionsAre(Definition, clear.options)
<1> DEFINE f == [o \in DOMAIN options |-> Cleared(options[o])]
           as == [a \in DOMAIN apps |-> ClearedApp(apps[a])]
<1>1. AppsAre(Definition, apps) /\ OptionsAre(Definition, options) /\ DOMAIN options = DOMAIN Definition.options
  BY DEF TypeInv, OptionsAre
<1>2. AppsAre(Definition, as)
  BY <1>1, ClearedAre
<1>3. \A o \in DOMAIN Definition.options : IsOptionState(f[o])
  BY <1>1, OptionSteps DEF OptionsAre
<1>4. f = [o \in DOMAIN options |-> f[o]]
  OBVIOUS
<1>5. clear = [apps |-> as, options |-> f] \/ clear = [apps |-> apps, options |-> options]
  BY DEF clear
<1> HIDE DEF f, as
<1>6. OptionsAre(Definition, f)
  BY <1>1, <1>3, <1>4, OptionsChanged
<1>7. CASE clear = [apps |-> as, options |-> f]
  <2>1. clear.apps = as /\ clear.options = f
    BY <1>7
  <2> QED
    BY <1>2, <1>6, <2>1
<1>8. CASE clear = [apps |-> apps, options |-> options]
  <2>1. clear.apps = apps /\ clear.options = options
    BY <1>8
  <2> QED
    BY <1>1, <2>1
<1> QED
  BY <1>5, <1>7, <1>8

(* A parse begins: the definition is checked, and the frame of the root is *)
(* all that is to be done.                                                 *)
LEMMA ParseMoves ==
  ASSUME TypeInv, parse
  PROVE  /\ Kept
         /\ \/ error' = "none" /\ todo' = <<Task("parse", Root), Return>>
            \/ error' = "InvalidError" /\ todo' = <<Return>>
<1>1. InputIs(given') /\ IsSequence(args') /\ ItemsAre(items')
  <2>1. InputIs(script[Len(outcomes) + 1])
    BY NextInput DEF parse
  <2>2. items' = <<>> /\ given' = script[Len(outcomes) + 1] /\ args' = script[Len(outcomes) + 1].line
    BY DEF parse
  <2>3. IsSequence(items') /\ Range(items') = {}
    BY <2>2, EmptyFacts
  <2> QED
    BY <2>1, <2>2, <2>3 DEF InputIs, ItemsAre
<1>2. OptionsAre(Definition, options')
  BY ClearIs DEF parse
<1> DEFINE start == Triggered(Root, Incremented(Root, _configure(clear.apps)))
<1>3. AppsAre(Definition, start)
  BY ClearIs, ConfiguredAre, IncrementedAre, TriggeredAre
<1>4. AppsAre(Definition, [clear.apps EXCEPT ![Root].parsed = 1])
  <2> DEFINE as == clear.apps
  <2>1. Root \in DOMAIN Definition.apps /\ AppsAre(Definition, as)
    BY Now, ClearIs DEF TypeInv
  <2> HIDE DEF as
  <2>2. IsAppState(Definition, Root, [as[Root] EXCEPT !.parsed = 1])
    BY <2>1, AppSteps, 1 \in Nat DEF AppsAre
  <2>3. AppsAre(Definition, [as EXCEPT ![Root] = [as[Root] EXCEPT !.parsed = 1]])
    BY <2>1, <2>2, AppsUpdated
  <2> QED
    BY <2>3 DEF as
<1>5. /\ apps' = start \/ apps' = [clear.apps EXCEPT ![Root].parsed = 1]
      /\ \/ error' = "none" /\ todo' = <<Task("parse", Root), Return>>
         \/ error' = "InvalidError" /\ todo' = <<Return>>
  BY DEF parse, Throw
<1> HIDE DEF start
<1>6. AppsAre(Definition, apps')
  BY <1>3, <1>4, <1>5
<1>7. UNCHANGED <<cli, script, outcomes>>
  BY DEF parse
<1> QED
  BY <1>1, <1>2, <1>5, <1>6, <1>7, AsBefore DEF Kept
-----------------------------------------------------------------------------
(* Every step but a return goes on with the same parse.                    *)
Quietly == ParseSingle \/ EndOfLine \/ Passed \/ TouchGroup \/ Configure \/ Process

(* Such a step is of some task, and adds no outcome.                       *)
LEMMA SameParse ==
  ASSUME Quietly
  PROVE  todo # <<>> /\ UNCHANGED outcomes
<1>1. ASSUME ParseSingle \/ EndOfLine \/ Passed \/ TouchGroup
      PROVE  todo # <<>> /\ UNCHANGED outcomes
  BY <1>1 DEF ParseSingle, PositionalMark, SubcommandTerminator, ParsePositional, RequiredPositional,
              Subcommand, ParseArg, EndOfLine, Passed, TouchGroup, Classified, InFrame, Doing
<1>2. ASSUME Configure
      PROVE  todo # <<>> /\ UNCHANGED outcomes
  BY <1>2 DEF Configure, process_config_file, ReadFile, FileRead, FileError, ItemsDone, UnknownItem,
              OpenSection, CloseSection, OptionItem, Quiet, Doing, NextItem
<1>3. ASSUME Process
      PROVE  todo # <<>> /\ UNCHANGED outcomes
  BY <1>3 DEF Process, process_env, process_callbacks, ProcessGroup, ProcessSubcommand, OptionCallback,
              process_help_flags, process_requirements, process_extras, RunCallbacks, Quiet, Doing
<1> QED
  BY <1>1, <1>2, <1>3 DEF Quietly

(* Such a step, but for those that judge, leaves all in order.             *)
LEMMA QuietlyMoves ==
  ASSUME TypeInv, Quietly, ~Judges
  PROVE  Kept /\ Moved
<1>1. ASSUME ParseSingle
      PROVE  Kept /\ Moved
  BY <1>1, PositionalMarkMoves, SubcommandTerminatorMoves, ParsePositionalMoves, RequiredPositionalMoves,
     SubcommandMoves, ParseArgMoves DEF ParseSingle
<1>2. ASSUME Configure
      PROVE  Kept /\ Moved
  BY <1>2, ConfigMoves, ReadFileMoves, FileReadMoves, ItemsDoneMoves, UnknownItemMoves,
     OpenSectionMoves, CloseSectionMoves, OptionItemMoves DEF Configure, Judges
<1>3. ASSUME Process
      PROVE  Kept /\ Moved
  BY <1>3, EnvMoves, CallbacksMove, GroupMoves, SubcommandProcessed, OptionCallbackMoves, RunMoves
     DEF Process, Judges
<1> QED
  BY <1>1, <1>2, <1>3, EndOfLineMoves, PassedMoves, TouchGroupMoves DEF Quietly

(* The call stacks that the steps leave.                                   *)
LEMMA TasksLeft ==
  ASSUME TypeInv
  PROVE  /\ TasksAre(Definition, <<>>) /\ TasksAre(Definition, <<Return>>)
         /\ TasksAre(Definition, <<Task("parse", Root), Return>>)
         /\ todo # <<>> => TasksAre(Definition, Tail(todo))
         /\ MissingFile => TasksAre(Definition, todo')
<1>1. Root \in DOMAIN Definition.apps
  BY Now DEF TypeInv
<1>2. \A do : do \notin {"passed", "callback", "group"} => IsTask(Definition, Task(do, Root))
  BY <1>1 DEF IsTask, Task
<1> DEFINE S == {Task(do, Root) : do \in {"parse", "return", "callbacks", "help", "file_error"}}
           one == <<Return>>
           two == <<Task("parse", Root), Return>>
           four == <<Task("callbacks", Root), Task("help", Root), Task("file_error", Root), Return>>
<1>3. \A t \in S : IsTask(Definition, t)
  BY <1>2
<1>4. one \in Seq(S) /\ two \in Seq(S) /\ four \in Seq(S)
  BY DEF Return
<1> HIDE DEF S
<1>5. TasksAre(Definition, one) /\ TasksAre(Definition, two) /\ TasksAre(Definition, four)
  <2> HIDE DEF one, two, four
  <2> QED
    BY <1>3, <1>4, TasksIn
<1>6. MissingFile => todo' = four
  BY DEF MissingFile
<1>7. todo # <<>> => TasksAre(Definition, Tail(todo))
  BY TasksAhead DEF TypeInv
<1> QED
  BY <1>5, <1>6, <1>7, FewTasks

(* The call stack of a step that moved is one.                             *)
LEMMA MovedTasks ==
  ASSUME TypeInv, todo # <<>>, Moved
  PROVE  TasksAre(Definition, todo')
<1>1. TasksAre(Definition, todo) /\ TasksAre(Definition, Tail(todo))
  BY TasksLeft DEF TypeInv
<1> QED
  BY <1>1, TasksLeft, TasksJoined DEF Moved

(* A step that leaves all in order keeps the invariant.                    *)
LEMMA KeptIsTyped ==
  ASSUME TypeInv, Kept, TasksAre(Definition, todo')
  PROVE  TypeInv'
BY DEF TypeInv, Kept, Definition
-----------------------------------------------------------------------------
(* A parse has something to return to.                                     *)
Parsing == todo # <<>> => Len(outcomes) < Len(script)

(* The invariant holds when the program starts.                            *)
LEMMA InitIsTyped ==
  ASSUME Init
  PROVE  TypeInv /\ Parsing
<1>1. cli \in DOMAIN Interfaces /\ script \in Scripts(cli) /\ todo = <<>> /\ outcomes = <<>>
      /\ args = <<>> /\ items = <<>>
  BY DEF Init
<1>2. \A a \in Apps : IsAppState(Definition, a, FreshApp(App(a)))
  <2>1. ASSUME NEW a \in Apps
        PROVE  IsAppState(Definition, a, FreshApp(App(a)))
    <3> DEFINE r == FreshApp(App(a))
    <3>1. App(a).disabled \in BOOLEAN
      BY <1>1, Now DEF IsTree
    <3>2. <<>> \in Seq(OptionsIn(Definition, a)) /\ <<>> \in Seq(Under(Definition, a))
      OBVIOUS
    <3> QED
      BY <3>1, <3>2 DEF FreshApp, IsAppState, AppFields
  <2> QED
    BY <2>1
<1>3. AppsAre(Definition, apps)
  <2>1. apps = [a \in Apps |-> FreshApp(App(a))]
    BY DEF Init, Apps
  <2> HIDE DEF IsAppState
  <2> QED
    BY <1>1, <1>2, <2>1, Now DEF AppsAre
<1>4. OptionsAre(Definition, options)
  BY OptionSteps DEF Init, OptionsAre, Definition
<1>5. InputIs(given)
  BY EmptyFacts DEF Init, InputIs
<1>6. IsSequence(args) /\ ItemsAre(items) /\ IsSequence(outcomes) /\ Len(outcomes) = 0
      /\ TasksAre(Definition, todo)
  BY <1>1, EmptyFacts, FewTasks DEF ItemsAre
<1>7. Len(script) >= 0
  BY <1>1, SequenceFacts, ScriptsAssumption
<1> QED
  BY <1>1, <1>3, <1>4, <1>5, <1>6, <1>7 DEF TypeInv, Parsing

(* Every step keeps the invariant.                                         *)
LEMMA StepIsTyped ==
  ASSUME TypeInv, Parsing, [Next]_vars
  PROVE  TypeInv' /\ Parsing' /\ UNCHANGED cli
<1>1. CASE parse
  <2>1. Kept /\ UNCHANGED outcomes /\ Len(outcomes) < Len(script)
    BY <1>1, ParseMoves DEF parse
  <2>2. TasksAre(Definition, todo')
    BY <1>1, ParseMoves, TasksLeft
  <2> QED
    BY <2>1, <2>2, KeptIsTyped DEF Parsing, Kept
<1>2. CASE Returned
  <2>1. todo # <<>>
    BY <1>2 DEF Returned, Doing
  <2>2. Kept /\ todo' = <<>>
    BY <1>2, <2>1, ReturnKeeps DEF Parsing
  <2> QED
    BY <2>2, TasksLeft, KeptIsTyped DEF Parsing, Kept
<1>3. CASE Quietly
  <2>1. todo # <<>> /\ UNCHANGED outcomes
    BY <1>3, SameParse
  <2>2. CASE Judges
    <3>1. Kept /\ TasksAre(Definition, todo')
      BY <2>2, JudgesKeep, TasksLeft
    <3> QED
      BY <2>1, <3>1, KeptIsTyped DEF Parsing, Kept
  <2>3. CASE ~Judges
    <3>1. Kept /\ TasksAre(Definition, todo')
      BY <1>3, <2>1, <2>3, QuietlyMoves, MovedTasks
    <3> QED
      BY <2>1, <3>1, KeptIsTyped DEF Parsing, Kept
  <2> QED
    BY <2>2, <2>3
<1>4. CASE UNCHANGED vars
  BY <1>4 DEF TypeInv, Parsing, vars, parsing, Definition
<1> QED
  BY <1>1, <1>2, <1>3, <1>4 DEF Next, Step, Quietly
-----------------------------------------------------------------------------
(* The invariant implies the type invariant of the runs.                   *)
LEMMA TypedIsOK == TypeInv => TypeOK
<1> SUFFICES ASSUME TypeInv
             PROVE  TypeOK
  OBVIOUS
<1>1. cli \in DOMAIN Interfaces /\ AppsAre(Definition, apps) /\ OptionsAre(Definition, options)
      /\ DOMAIN apps = DOMAIN Definition.apps /\ DOMAIN options = DOMAIN Definition.options
  BY DEF TypeInv, AppsAre, OptionsAre
<1>2. ASSUME NEW a \in DOMAIN apps
      PROVE  /\ apps[a].parsed \in Nat /\ {apps[a].pre_parse_called, apps[a].disabled} \subseteq BOOLEAN
             /\ Range(apps[a].parsed_subcommands) \subseteq DOMAIN apps
             /\ Range(apps[a].parse_order) \subseteq Range(App(a).options)
  <2>1. IsAppState(Definition, a, apps[a])
    BY <1>1 DEF AppsAre
  <2>2. Under(Definition, a) \subseteq DOMAIN apps /\ App(a).options = Definition.apps[a].options
    BY <1>1, Now, UnderFacts
  <2>3. /\ Range(apps[a].parsed_subcommands) \subseteq Under(Definition, a)
        /\ Range(apps[a].parse_order) \subseteq OptionsIn(Definition, a)
    BY <2>1, AppHas, SequencesAre
  <2> QED
    BY <2>1, <2>2, <2>3, AppHas DEF OptionsIn
<1>3. \A o \in DOMAIN options : options[o].state \in {"parsing", "validated", "callback_run"}
  BY <1>1 DEF OptionsAre, IsOptionState, OptionStates
<1> QED
  BY <1>1, <1>2, <1>3 DEF TypeInv, TypeOK, Definition

(***************************************************************************)
(* Whatever the definition, the line, the files and the environment: an    *)
(* app lists only apps of the program as used, and only options of its own *)
(* as given, and the program has no more outcomes than inputs              *)
(* (App::parse).                                                           *)
(***************************************************************************)
THEOREM EverythingIsTyped == Spec => []TypeOK
<1>1. Init => TypeInv /\ Parsing
  BY InitIsTyped
<1>2. TypeInv /\ Parsing /\ [Next]_vars => (TypeInv /\ Parsing)'
  BY StepIsTyped
<1>3. TypeInv /\ Parsing => TypeOK
  BY TypedIsOK
<1> QED
  BY <1>1, <1>2, <1>3, PTL DEF Spec
-----------------------------------------------------------------------------
(***************************************************************************)
(* How far a parse is, when no app has an immediate callback.              *)
(***************************************************************************)
Ahead == error = "none" /\ HelpAhead(Definition, todo)
Thrower == todo = <<Return>> /\ error \notin Complaints \cup {"none"}
NotAsked == ~IsGiven(App(Root).help) /\ AllLate(todo)
Phases == Ahead \/ Thrower \/ NotAsked \/ todo = <<>>

(* The steps that go on with a parse are those of other tasks.             *)
LEMMA OtherTasks ==
  ASSUME Quietly, ~Judges, ~RunCallbacks
  PROVE  Head(todo).do \notin LateKinds \cup {"help"}
<1>1. ASSUME ParseSingle \/ EndOfLine \/ Passed \/ TouchGroup
      PROVE  Head(todo).do \notin LateKinds \cup {"help"}
  BY <1>1 DEF ParseSingle, PositionalMark, SubcommandTerminator, ParsePositional, RequiredPositional,
              Subcommand, ParseArg, EndOfLine, Passed, TouchGroup, Classified, InFrame, Doing, LateKinds
<1>2. ASSUME Configure
      PROVE  Head(todo).do \notin LateKinds \cup {"help"}
  BY <1>2 DEF Configure, process_config_file, ReadFile, FileRead, ItemsDone, UnknownItem,
              OpenSection, CloseSection, OptionItem, Doing, NextItem, Judges, LateKinds
<1>3. ASSUME Process
      PROVE  Head(todo).do \notin LateKinds \cup {"help"}
  BY <1>3 DEF Process, process_env, process_callbacks, ProcessGroup, ProcessSubcommand, OptionCallback,
              Judges, Doing, LateKinds
<1> QED
  BY <1>1, <1>2, <1>3 DEF Quietly

(* The steps that look for complaints are those of late tasks.             *)
LEMMA JudgesHeads ==
  ASSUME Judges, ~process_help_flags
  PROVE  Head(todo).do \in LateKinds
BY DEF Judges, process_requirements, process_extras, FileError, Doing, LateKinds

(* When the help flags are ahead, no complaint comes next; when they are   *)
(* next, only complaints are left.                                         *)
LEMMA NotAhead ==
  ASSUME TypeInv, Ahead
  PROVE  /\ todo # <<>> /\ Head(todo).do \notin LateKinds \ {"run_final"}
         /\ Head(todo).do = "help" => Of = Root /\ AllLate(Tail(todo))
<1>1. IsSequence(todo) /\ HelpAhead(Definition, todo) /\ Root = Definition.root
  BY Now DEF TypeInv, TasksAre, Ahead
<1>2. todo # <<>> /\ (IsEarly(Definition, Head(todo)) \/ IsPivot(Definition, Head(todo)))
      /\ (IsPivot(Definition, Head(todo)) => AllLate(Tail(todo)))
  BY <1>1, HelpAheadHead
<1> QED
  BY <1>1, <1>2 DEF IsEarly, IsPivot, IsRootFrame, EndsEarly, EarlyKinds, LateKinds, Frames, Of

(* A parse begins with the help flags ahead, or throws.                    *)
LEMMA ParseStartsAhead ==
  ASSUME TypeInv, parse
  PROVE  Ahead' \/ Thrower'
<1>1. UNCHANGED cli /\ Root = Definition.root
  BY Now DEF parse, TypeInv
<1>2. CASE error' = "none" /\ todo' = <<Task("parse", Root), Return>>
  <2> DEFINE s == <<Task("parse", Root), Return>>
  <2>1. /\ Len(s) = 2 /\ s[1] = Task("parse", Root) /\ s[2] = Task("return", Root)
    BY DEF Return
  <2> HIDE DEF s
  <2>2. HelpAhead(Definition, s)
    <3>1. 1 \in 1 .. Len(s) /\ 1 .. 1 - 1 = {} /\ 1 + 1 .. Len(s) = {2}
      BY <2>1
    <3>2. IsPivot(Definition, s[1]) /\ s[2].do \in LateKinds
      BY <1>1, <2>1 DEF IsPivot, IsRootFrame, Frames, LateKinds, Task
    <3> QED
      BY <3>1, <3>2 DEF HelpAhead
  <2>3. todo' = s
    BY <1>2 DEF s
  <2> QED
    BY <1>1, <1>2, <2>2, <2>3 DEF Ahead, Definition
<1>3. CASE error' = "InvalidError" /\ todo' = <<Return>>
  BY <1>1, <1>3 DEF Thrower, Return, Root, Complaints
<1> QED
  BY <1>2, <1>3, ParseMoves

(* A file that is missing is complained of after the help flags            *)
(* (_process_config_file's FileError is held back).                        *)
LEMMA MissingFileAhead ==
  ASSUME TypeInv, MissingFile, UNCHANGED cli, error = "none"
  PROVE  Ahead'
<1> DEFINE s == <<Task("callbacks", Root), Task("help", Root), Task("file_error", Root), Return>>
<1>1. Root = Definition.root
  BY Now DEF TypeInv
<1>2. /\ Len(s) = 4 /\ s[1] = Task("callbacks", Root) /\ s[2] = Task("help", Root)
      /\ s[3] = Task("file_error", Root) /\ s[4] = Task("return", Root)
  BY DEF Return
<1>3. todo' = s /\ error' = "none"
  BY DEF MissingFile
<1> HIDE DEF s
<1>4. HelpAhead(Definition, s)
  <2>1. 2 \in 1 .. Len(s) /\ 1 .. 2 - 1 = {1} /\ 2 + 1 .. Len(s) = {3, 4}
    BY <1>2
  <2>2. IsPivot(Definition, s[2]) /\ IsEarly(Definition, s[1])
    BY <1>1, <1>2 DEF IsPivot, IsEarly, IsRootFrame, EndsEarly, EarlyKinds, Frames, Task
  <2>3. s[3].do \in LateKinds /\ s[4].do \in LateKinds
    BY <1>2 DEF LateKinds, Task
  <2> QED
    BY <2>1, <2>2, <2>3 DEF HelpAhead
<1> QED
  BY <1>3, <1>4 DEF Ahead, Definition

(* A step of an early task leaves the help flags ahead, or throws          *)
(* something but a complaint.                                              *)
LEMMA AheadMoves ==
  ASSUME TypeInv, Tame, Ahead, Moved, UNCHANGED cli, Head(todo).do # "help"
  PROVE  Ahead' \/ Thrower'
<1>1. IsSequence(todo) /\ HelpAhead(Definition, todo) /\ error = "none"
  BY DEF TypeInv, TasksAre, Ahead
<1>2. CASE todo' = todo /\ error' = error
  BY <1>1, <1>2 DEF Ahead, Definition
<1>3. ASSUME NEW tasks, TasksAre(Definition, tasks), Extends(Definition, Head(todo), tasks),
             todo' = tasks \o Tail(todo), error' = error
      PROVE  Ahead'
  <2>1. HelpAhead(Definition, tasks \o Tail(todo))
    BY <1>1, <1>3, HelpStaysAhead DEF TasksAre
  <2> DEFINE s == tasks \o Tail(todo)
  <2>2. HelpAhead(Definition, s) /\ todo' = s
    BY <1>3, <2>1
  <2> HIDE DEF s
  <2> QED
    BY <1>1, <1>3, <2>2 DEF Ahead, Definition
<1>4. CASE todo' = <<Return>> /\ error' \notin Complaints \cup {"none"}
  BY <1>4 DEF Thrower, Return, Root, Complaints
<1>5. CASE MissingFile
  BY <1>1, <1>5, MissingFileAhead
<1> QED
  BY <1>2, <1>3, <1>4, <1>5 DEF Moved, Succeeds

(* The help flags are processed when all has been read.                    *)
LEMMA HelpIsProcessed ==
  ASSUME TypeInv, Ahead, process_help_flags
  PROVE  Thrower' \/ NotAsked'
<1>1. UNCHANGED <<cli, options>> /\ Head(todo).do = "help" /\ Raise(HelpFlags(Of, FALSE, FALSE), <<>>)
  BY DEF process_help_flags, Quiet, input, state, Doing
<1>2. Of = Root /\ AllLate(Tail(todo))
  BY <1>1, NotAhead
<1>3. HelpFlags(Root, FALSE, FALSE) \in HelpValues(<<Root, FALSE, FALSE>>)
  <2>1. cli \in DOMAIN Interfaces /\ Root \in Apps
    BY Now DEF TypeInv
  <2>2. Nested
    <3>1. ASSUME NEW a \in Apps
          PROVE  apps[a].parsed_subcommands \in Seq(Under(Definition, a))
      <4>1. IsAppState(Definition, a, apps[a])
        BY <2>1, Now DEF TypeInv, AppsAre
      <4> QED
        BY <4>1, AppHas
    <3> QED
      BY <3>1 DEF Nested
  <2> QED
    BY <2>1, <2>2, HelpFlagsFacts
<1> DEFINE e == HelpFlags(Root, FALSE, FALSE)
<1>4. Raise(e, <<>>) /\ e \in HelpCalls \cup {"none"} /\ (IsGiven(App(Root).help) => e # "none")
  BY <1>1, <1>2, <1>3 DEF HelpValues, HelpCalls
<1> HIDE DEF e
<1>5. CASE e = "none"
  <2>1. todo' = <<>> \o Tail(todo)
    BY <1>4, <1>5 DEF Raise, Then
  <2>2. AllLate(<<>> \o Tail(todo))
    <3>1. IsSequence(Tail(todo)) /\ IsSequence(<<>>)
      BY NotAhead, TasksLeft, EmptyFacts DEF TasksAre
    <3> QED
      BY <1>2, <3>1, EmptyFacts, ConcatFacts DEF AllLate
  <2>3. ~IsGiven(App(Root).help)
    BY <1>4, <1>5
  <2> QED
    BY <1>1, <2>1, <2>2, <2>3 DEF NotAsked, AllLate, IsGiven, App, Root
<1>6. CASE e # "none"
  BY <1>1, <1>4, <1>6 DEF Raise, Throw, Thrower, Return, Root, Complaints, HelpCalls
<1> QED
  BY <1>5, <1>6

(* No one asked for help: what is left are complaints.                     *)
LEMMA NotAskedStays ==
  ASSUME TypeInv, NotAsked, todo # <<>>, UNCHANGED <<cli, options>>,
         todo' = Tail(todo) \/ todo' = <<Return>>
  PROVE  NotAsked'
<1>1. IsSequence(todo)
  BY DEF TypeInv, TasksAre
<1>2. AllLate(Tail(todo))
  BY <1>1, TailFacts DEF NotAsked, AllLate
<1>3. AllLate(<<Return>>)
  BY OneFacts DEF AllLate, Return, Task, LateKinds
<1> QED
  BY <1>2, <1>3 DEF NotAsked, AllLate, IsGiven, App, Root

(* The phases follow each other: the help flags are ahead, then one has    *)
(* thrown or only complaints are left, and nobody asked for help.          *)
LEMMA PhasesFollow ==
  ASSUME TypeInv, Tame, Phases, [Next]_vars
  PROVE  Phases'
<1>1. CASE parse
  BY <1>1, ParseStartsAhead DEF Phases
<1>2. CASE Returned
  BY <1>2 DEF Returned, Phases
<1>3. CASE UNCHANGED vars
  BY <1>3 DEF Phases, Ahead, Thrower, NotAsked, AllLate, IsGiven, App, Root, Return, Definition, vars, parsing
<1>4. CASE Quietly
  <2>1. todo # <<>>
    BY <1>4, SameParse
  <2>2. CASE Ahead
    <3>1. CASE process_help_flags
      BY <2>2, <3>1, HelpIsProcessed DEF Phases
    <3>2. CASE Judges /\ ~process_help_flags
      <4>1. Head(todo).do \in LateKinds \ {"run_final"}
        BY <3>2 DEF Judges, process_requirements, process_extras, FileError, Doing, LateKinds
      <4> QED
        BY <2>2, <4>1, NotAhead
    <3>3. CASE ~Judges
      <4>1. Head(todo).do # "help"
        BY <1>4, <3>3, OtherTasks DEF RunCallbacks, Doing
      <4>2. Moved /\ UNCHANGED cli
        BY <1>4, <3>3, QuietlyMoves DEF Kept
      <4> QED
        BY <2>2, <4>1, <4>2, AheadMoves DEF Phases
    <3> QED
      BY <3>1, <3>2, <3>3
  <2>3. CASE Thrower \/ NotAsked
    <3>1. Head(todo).do \in LateKinds /\ (Thrower => Head(todo).do = "return")
      <4>1. CASE Thrower
        BY <4>1 DEF Thrower, Return, Task, LateKinds
      <4>2. CASE NotAsked /\ ~Thrower
        BY <2>1, <4>2, TailFacts DEF NotAsked, AllLate, TypeInv, TasksAre
      <4> QED
        BY <2>3, <4>1, <4>2
    <3>2. Head(todo).do # "return"
      <4>1. Judges => Head(todo).do # "return"
        BY DEF Judges, process_help_flags, process_requirements, process_extras, FileError, Doing
      <4>2. RunCallbacks => Head(todo).do # "return"
        BY DEF RunCallbacks, Doing
      <4> QED
        BY <1>4, <3>1, <4>1, <4>2, OtherTasks
    <3>3. NotAsked
      BY <2>3, <3>1, <3>2
    <3>4. UNCHANGED <<cli, options>> /\ (todo' = Tail(todo) \/ todo' = <<Return>>)
      <4>1. CASE Judges
        BY <4>1, JudgesKeep DEF Kept
      <4>2. CASE RunCallbacks
        <5>1. UNCHANGED <<cli, options>> /\ todo' = <<>> \o Tail(todo)
          BY <4>2 DEF RunCallbacks, Then, Quiet, input, state
        <5>2. IsSequence(Tail(todo))
          BY <2>1, TasksLeft DEF TasksAre
        <5> QED
          BY <5>1, <5>2, NothingFirst
      <4> QED
        BY <1>4, <3>1, <4>1, <4>2, OtherTasks
    <3> QED
      BY <2>1, <3>3, <3>4, NotAskedStays DEF Phases
  <2> QED
    BY <2>1, <2>2, <2>3 DEF Phases
<1> QED
  BY <1>1, <1>2, <1>3, <1>4 DEF Next, Step, Quietly

HelpInv == Tame => Phases

(***************************************************************************)
(* Who asks for help gets it and not a complaint: whatever is on the line, *)
(* in the files and in the environment, a parse of a program without       *)
(* immediate callbacks whose help flag was given does not end with a       *)
(* RequiredError, RequiresError, ExcludesError or FileError, nor as if it  *)
(* had succeeded (_process calls _process_help_flags first).               *)
(***************************************************************************)
THEOREM HelpComesFirst == Spec => []HelpBeforeComplaints
<1>1. Init => TypeInv /\ Parsing /\ HelpInv
  BY InitIsTyped DEF Init, HelpInv, Phases
<1>2. TypeInv /\ Parsing /\ HelpInv /\ [Next]_vars => (TypeInv /\ Parsing /\ HelpInv)'
  <2> SUFFICES ASSUME TypeInv, Parsing, HelpInv, [Next]_vars
               PROVE  (TypeInv /\ Parsing /\ HelpInv)'
    OBVIOUS
  <2>1. TypeInv' /\ Parsing' /\ UNCHANGED cli
    BY StepIsTyped
  <2>2. Tame' => Tame
    BY <2>1 DEF Tame, Apps, App
  <2>3. HelpInv'
    BY <2>2, PhasesFollow DEF HelpInv
  <2> QED
    BY <2>1, <2>3
<1>3. TypeInv /\ HelpInv => HelpBeforeComplaints
  <2> SUFFICES ASSUME TypeInv, HelpInv, Done, IsGiven(App(Root).help),
                      \A a \in DOMAIN apps : ~App(a).parse_complete
               PROVE  error \notin Complaints \cup {"none"}
    BY DEF HelpBeforeComplaints
  <2>1. todo # <<>> /\ Head(todo).do = "return"
    BY DEF Done, Doing
  <2>2. Tame
    BY Now DEF Tame, TypeInv, AppsAre
  <2>3. ~Ahead
    BY <2>1, NotAhead DEF LateKinds
  <2> QED
    BY <2>1, <2>2, <2>3 DEF HelpInv, Phases, Thrower, NotAsked
<1> QED
  BY <1>1, <1>2, <1>3, PTL DEF Spec

-----------------------------------------------------------------------------
(***************************************************************************)
(* A parse that succeeds has asked the root for its requirements and its   *)
(* extras once, as its last questions, and calls its final callbacks after *)
(* that.  s ends with e, and before e nothing returns or calls final ones. *)
(***************************************************************************)
EndsWith(d, s, e) ==
  /\ Len(e) <= Len(s)
  /\ \A i \in 1 .. Len(e) : s[(Len(s) - Len(e)) + i] = e[i]
  /\ \A i \in 1 .. Len(s) - Len(e) : Inner(d, s[i])

(* Tasks before a stack leave its end.                                     *)
LEMMA EndsAfter ==
  ASSUME NEW d, NEW s, NEW t, NEW e, IsSequence(s), IsSequence(t), IsSequence(e),
         EndsWith(d, t, e), AllInner(d, s)
  PROVE  EndsWith(d, s \o t, e)
<1> DEFINE r == s \o t
<1>1. /\ Len(r) = Len(s) + Len(t) /\ Len(s) \in Nat /\ Len(t) \in Nat /\ Len(e) \in Nat
      /\ \A i \in 1 .. Len(s) : r[i] = s[i]
      /\ \A i \in 1 .. Len(t) : r[Len(s) + i] = t[i]
      /\ \A i \in 1 .. Len(s) : s[i] \in Range(s)
  BY ConcatFacts, SequenceFacts
<1> HIDE DEF r
<1>2. ASSUME NEW i \in 1 .. Len(e)
      PROVE  r[(Len(r) - Len(e)) + i] = e[i]
  <2>1. (Len(t) - Len(e)) + i \in 1 .. Len(t)
    BY <1>1 DEF EndsWith
  <2>2. (Len(r) - Len(e)) + i = Len(s) + ((Len(t) - Len(e)) + i)
    BY <1>1
  <2> QED
    BY <1>1, <2>1, <2>2 DEF EndsWith
<1>3. ASSUME NEW i \in 1 .. Len(r) - Len(e)
      PROVE  Inner(d, r[i])
  <2>1. CASE i <= Len(s)
    BY <1>1, <2>1 DEF AllInner
  <2>2. CASE i > Len(s)
    <3>1. i - Len(s) \in 1 .. Len(t) - Len(e) /\ i - Len(s) \in 1 .. Len(t) /\ i = Len(s) + (i - Len(s))
      BY <1>1, <2>2
    <3>2. r[i] = t[i - Len(s)]
      BY <1>1, <3>1
    <3> QED
      BY <3>1, <3>2 DEF EndsWith
  <2> QED
    BY <1>1, <2>1, <2>2
<1>4. Len(e) <= Len(r)
  BY <1>1 DEF EndsWith
<1> QED
  BY <1>2, <1>3, <1>4 DEF EndsWith, r

(* The first task is one before that end, or the end is all that is left.  *)
LEMMA EndsHead ==
  ASSUME NEW d, NEW s, NEW e, IsSequence(s), IsSequence(e), EndsWith(d, s, e), s # <<>>
  PROVE  \/ s = e
         \/ Inner(d, Head(s)) /\ EndsWith(d, Tail(s), e)
<1> DEFINE t == Tail(s)
<1>1. /\ IsSequence(t) /\ Len(t) = Len(s) - 1 /\ Len(s) >= 1 /\ Len(s) \in Nat /\ Len(e) \in Nat
      /\ \A i \in 1 .. Len(s) - 1 : t[i] = s[i + 1]
      /\ Head(s) = s[1]
  BY TailFacts, SequenceFacts
<1> HIDE DEF t
<1>2. CASE Len(s) = Len(e)
  <2>1. \A i \in 1 .. Len(s) : s[i] = e[i]
    BY <1>1, <1>2 DEF EndsWith
  <2>2. s \in Seq(Range(s)) /\ e \in Seq(Range(e))
    BY DEF IsSequence
  <2>3. s \in Seq(Range(s) \cup Range(e)) /\ e \in Seq(Range(s) \cup Range(e))
    BY <2>2
  <2> QED
    BY <1>2, <2>1, <2>3, SeqEqual
<1>3. CASE Len(s) # Len(e)
  <2>1. Len(e) <= Len(t)
    BY <1>1, <1>3 DEF EndsWith
  <2>2. ASSUME NEW i \in 1 .. Len(e)
        PROVE  t[(Len(t) - Len(e)) + i] = e[i]
    <3>1. (Len(t) - Len(e)) + i \in 1 .. Len(s) - 1 /\ ((Len(t) - Len(e)) + i) + 1 = (Len(s) - Len(e)) + i
      BY <1>1, <2>1
    <3> QED
      BY <1>1, <3>1 DEF EndsWith
  <2>3. ASSUME NEW i \in 1 .. Len(t) - Len(e)
        PROVE  Inner(d, t[i])
    <3>1. i \in 1 .. Len(s) - 1 /\ i + 1 \in 1 .. Len(s) - Len(e)
      BY <1>1
    <3> QED
      BY <1>1, <3>1 DEF EndsWith
  <2>4. Inner(d, s[1])
    <3>1. 1 \in 1 .. Len(s) - Len(e)
      BY <1>1, <1>3 DEF EndsWith
    <3> QED
      BY <3>1 DEF EndsWith
  <2> QED
    BY <1>1, <2>1, <2>2, <2>3, <2>4 DEF EndsWith, t
<1> QED
  BY <1>2, <1>3

LastTasks == <<Task("requirements", Root), Task("extras", Root), Task("run_final", Root), Return>>
FrameStack(f) == <<f, Return>>
FileStack == <<Task("file_error", Root), Return>>

AtRootFrame == \E f : IsRootFrame(Definition, f) /\ EndsWith(Definition, todo, FrameStack(f))
BeforeRequirements == EndsWith(Definition, todo, LastTasks)
BeforeFileError == EndsWith(Definition, todo, FileStack)
Judged ==
  /\ Requirements(Root) = "none"
  /\ \/ todo = <<Task("extras", Root), Task("run_final", Root), Return>>
     \/ /\ Extras(Root) = "none"
        /\ todo = <<Task("run_final", Root), Return>> \/ todo = <<Return>>

Unjudged == error = "none" /\ (AtRootFrame \/ BeforeRequirements \/ BeforeFileError)
HasThrown == error # "none" /\ todo = <<Return>>
JudgedOnce == error = "none" /\ Judged
Stages == todo = <<>> \/ HasThrown \/ Unjudged \/ JudgedOnce

(* The tasks the root ends with, one by one.                               *)
LEMMA LastTasksAre ==
  /\ IsSequence(LastTasks) /\ Len(LastTasks) = 4 /\ LastTasks # <<>>
  /\ LastTasks[1] = Task("requirements", Root) /\ LastTasks[2] = Task("extras", Root)
  /\ LastTasks[3] = Task("run_final", Root) /\ LastTasks[4] = Return
  /\ Head(LastTasks) = Task("requirements", Root)
  /\ Tail(LastTasks) = <<Task("extras", Root), Task("run_final", Root), Return>>
<1> DEFINE S == {Task("requirements", Root), Task("extras", Root), Task("run_final", Root), Return}
<1>1. LastTasks \in Seq(S) /\ LastTasks # <<>>
  BY DEF LastTasks
<1>2. IsSequence(LastTasks)
  <2> HIDE DEF S
  <2> QED
    BY <1>1, SequencesAre
<1> QED
  BY <1>1, <1>2 DEF LastTasks

(* The stacks of a frame, and of a file that is missing.                   *)
LEMMA FrameStackIs ==
  ASSUME NEW f
  PROVE  /\ IsSequence(FrameStack(f)) /\ Len(FrameStack(f)) = 2 /\ FrameStack(f) # <<>>
         /\ FrameStack(f)[1] = f /\ FrameStack(f)[2] = Return
         /\ Head(FrameStack(f)) = f /\ Tail(FrameStack(f)) = <<Return>>
<1> DEFINE S == {f, Return}
<1>1. FrameStack(f) \in Seq(S) /\ FrameStack(f) # <<>>
  BY DEF FrameStack
<1>2. IsSequence(FrameStack(f))
  <2> HIDE DEF S
  <2> QED
    BY <1>1, SequencesAre
<1> QED
  BY <1>1, <1>2 DEF FrameStack

(* The same stack, another way.                                            *)
LEMMA FileStackIs == FileStack = FrameStack(Task("file_error", Root))
BY DEF FileStack, FrameStack

(* What the judgements ask does not change but with apps and options.      *)
LEMMA SameJudgements ==
  ASSUME UNCHANGED <<cli, apps, options>>
  PROVE  /\ Requirements(Root)' = Requirements(Root)
         /\ Extras(Root)' = Extras(Root)
         /\ LastTasks' = LastTasks /\ FileStack' = FileStack /\ Return' = Return
         /\ Root' = Root /\ Definition' = Definition
<1>1. Requirements(Root)' = Requirements(Root)
  BY DEF Requirements, Root, Excluded, Lacking, LetOff, Numbers, UsedOptions, OptionRequirements,
         FirstError, First, At, Groups, count_all, App, Nameless, Below, Apps, count, Opt,
         MapThenSumSet, MapThenFoldSet
<1>2. Extras(Root)' = Extras(Root)
  BY DEF Extras, PrefixCommand, IsSubgroup, IsRoot, Root, FirstError, First, At, App, Nameless, Apps
<1> QED
  BY <1>1, <1>2 DEF LastTasks, FileStack, Return, Root, Definition

(* A frame of the root at the end, or what the root ends with.             *)
LEMMA FrameEnds ==
  ASSUME cli \in DOMAIN Interfaces, NEW tasks, IsSequence(tasks),
         EndsInFrame(tasks) \/ tasks = Ending(Root)
  PROVE  \/ \E f : IsRootFrame(Definition, f) /\ EndsWith(Definition, tasks \o <<Return>>, FrameStack(f))
         \/ EndsWith(Definition, tasks \o <<Return>>, LastTasks)
<1> DEFINE r == tasks \o <<Return>>
<1>1. IsSequence(<<Return>>) /\ Len(<<Return>>) = 1 /\ <<Return>>[1] = Return
  BY OneFacts
<1>2. /\ Len(tasks) \in Nat /\ Len(r) = Len(tasks) + 1 /\ r[Len(tasks) + 1] = Return
      /\ \A i \in 1 .. Len(tasks) : r[i] = tasks[i]
  BY <1>1, ConcatFacts, SequenceFacts
<1>3. CASE EndsInFrame(tasks)
  <2> DEFINE f == tasks[Len(tasks)]
  <2>1. IsRootFrame(Definition, f) /\ Len(tasks) # 0
    BY <1>3, EmptyFacts, EmptySeq DEF EndsInFrame, IsSequence
  <2>2. r[Len(tasks)] = f
    BY <1>2, <2>1
  <2> HIDE DEF r
  <2>3. \A i \in 1 .. 2 : r[(Len(r) - 2) + i] = FrameStack(f)[i]
    <3>1. r[(Len(r) - 2) + 1] = f /\ r[(Len(r) - 2) + 2] = Return
      BY <1>2, <2>1, <2>2
    <3>2. FrameStack(f)[1] = f /\ FrameStack(f)[2] = Return
      BY FrameStackIs
    <3> HIDE DEF f
    <3> QED
      BY <3>1, <3>2
  <2>4. \A i \in 1 .. Len(r) - 2 : Inner(Definition, r[i])
    BY <1>2, <1>3 DEF EndsInFrame
  <2>5. 2 <= Len(r) /\ Len(FrameStack(f)) = 2
    BY <1>2, <2>1, FrameStackIs
  <2>6. EndsWith(Definition, r, FrameStack(f))
    BY <2>3, <2>4, <2>5 DEF EndsWith
  <2> QED
    BY <2>1, <2>6 DEF r
<1>4. CASE tasks = Ending(Root)
  <2>1. IsRoot(Root)
    BY Now, RootIs
  <2>2. /\ Len(tasks) = 7 /\ tasks[5] = Task("requirements", Root) /\ tasks[6] = Task("extras", Root)
        /\ tasks[7] = Task("run_final", Root)
        /\ \A i \in 1 .. 4 : Inner(Definition, tasks[i])
    BY <1>4, <2>1 DEF Ending, Inner, Task, IsRootFrame, Frames, EndsEarly
  <2> HIDE DEF r
  <2>3. /\ Len(r) = 8 /\ r[5] = Task("requirements", Root) /\ r[6] = Task("extras", Root)
        /\ r[7] = Task("run_final", Root) /\ r[8] = Return
    BY <1>2, <2>2
  <2>4. \A i \in 1 .. 4 : r[(Len(r) - 4) + i] = LastTasks[i]
    BY <2>3, LastTasksAre
  <2>5. \A i \in 1 .. Len(r) - 4 : Inner(Definition, r[i])
    BY <1>2, <2>2, <2>3
  <2> QED
    BY <2>3, <2>4, <2>5, LastTasksAre DEF EndsWith, r
<1> QED
  BY <1>3, <1>4

(* A file that is missing: the help flags, and then the error.             *)
LEMMA FileEnds ==
  LET s == <<Task("callbacks", Root), Task("help", Root), Task("file_error", Root), Return>>
  IN  EndsWith(Definition, s, FileStack)
<1> DEFINE s == <<Task("callbacks", Root), Task("help", Root), Task("file_error", Root), Return>>
<1>1. /\ Len(s) = 4 /\ s[1].do = "callbacks" /\ s[2].do = "help"
      /\ s[3] = Task("file_error", Root) /\ s[4] = Return
      /\ Inner(Definition, s[1]) /\ Inner(Definition, s[2])
  BY DEF Task, Inner, IsRootFrame, Frames, EndsEarly
<1>2. Len(FileStack) = 2 /\ FileStack[1] = Task("file_error", Root) /\ FileStack[2] = Return
  BY FileStackIs, FrameStackIs
<1> HIDE DEF s
<1> QED
  BY <1>1, <1>2 DEF EndsWith, s

(* The tasks of a step that does not judge: none of those that judge.      *)
LEMMA NotJudging ==
  ASSUME Quietly, ~Judges
  PROVE  Head(todo).do \notin {"requirements", "extras", "file_error", "return"}
BY OtherTasks DEF RunCallbacks, Doing, LateKinds

(* As long as nothing has judged the root, this is still to come.          *)
LEMMA UnjudgedMoves ==
  ASSUME TypeInv, Unjudged, Moved, UNCHANGED cli, todo # <<>>, Quietly, ~Judges
  PROVE  Unjudged' \/ HasThrown'
<1>1. /\ cli \in DOMAIN Interfaces /\ IsSequence(todo) /\ error = "none"
      /\ Definition' = Definition /\ LastTasks' = LastTasks /\ FileStack' = FileStack /\ Return' = Return
      /\ Head(todo).do \notin {"requirements", "extras", "file_error", "return"}
  BY NotJudging DEF TypeInv, TasksAre, Unjudged, Definition, LastTasks, FileStack, Return, Root
<1>2. IsSequence(LastTasks) /\ IsSequence(FileStack) /\ \A f : IsSequence(FrameStack(f))
  BY LastTasksAre, FileStackIs, FrameStackIs
<1>3. \/ BeforeRequirements \/ BeforeFileError
      \/ \E f : IsRootFrame(Definition, f) /\ EndsWith(Definition, todo, FrameStack(f))
  BY DEF Unjudged, AtRootFrame
<1>4. ASSUME NEW s, todo' = s, error' = error,
             \/ EndsWith(Definition, s, LastTasks) \/ EndsWith(Definition, s, FileStack)
             \/ \E f : IsRootFrame(Definition, f) /\ EndsWith(Definition, s, FrameStack(f))
      PROVE  Unjudged'
  BY <1>1, <1>4 DEF Unjudged, AtRootFrame, BeforeRequirements, BeforeFileError, FrameStack
<1>5. CASE todo' = todo /\ error' = error
  BY <1>3, <1>4, <1>5 DEF BeforeRequirements, BeforeFileError
<1>6. ASSUME NEW tasks, TasksAre(Definition, tasks), Succeeds(tasks),
             todo' = tasks \o Tail(todo), error' = error
      PROVE  Unjudged'
  <2>1. IsSequence(tasks) /\ IsSequence(Tail(todo))
    BY <1>1, <1>6, TailFacts DEF TasksAre
  <2>2. ASSUME NEW e, IsSequence(e), EndsWith(Definition, todo, e)
        PROVE  todo = e \/ EndsWith(Definition, tasks \o Tail(todo), e)
    <3>1. todo = e \/ (Inner(Definition, Head(todo)) /\ EndsWith(Definition, Tail(todo), e))
      BY <1>1, <2>2, EndsHead
    <3>2. Inner(Definition, Head(todo)) => AllInner(Definition, tasks)
      BY <1>6 DEF Inner, Succeeds
    <3> QED
      BY <2>1, <2>2, <3>1, <3>2, EndsAfter
  <2>4. todo # LastTasks /\ todo # FileStack
    BY <1>1, LastTasksAre, FileStackIs, FrameStackIs DEF Task
  <2>5. ASSUME NEW f, IsRootFrame(Definition, f), todo = FrameStack(f)
        PROVE  Unjudged'
    <3>1. Head(todo) = f /\ Tail(todo) = <<Return>>
      BY <2>5, FrameStackIs
    <3>2. EndsInFrame(tasks) \/ tasks = Ending(Root)
      BY <1>6, <2>5, <3>1 DEF Succeeds
    <3>3. \/ \E g : IsRootFrame(Definition, g) /\ EndsWith(Definition, tasks \o <<Return>>, FrameStack(g))
          \/ EndsWith(Definition, tasks \o <<Return>>, LastTasks)
      BY <1>1, <2>1, <3>2, FrameEnds
    <3> QED
      BY <1>4, <1>6, <3>1, <3>3
  <2> QED
    BY <1>2, <1>3, <1>4, <1>6, <2>2, <2>4, <2>5 DEF BeforeRequirements, BeforeFileError
<1>7. ASSUME NEW tasks, TasksAre(Definition, tasks), AllInner(Definition, tasks),
             todo' = tasks \o todo, error' = error
      PROVE  Unjudged'
  <2>1. \A e : IsSequence(e) /\ EndsWith(Definition, todo, e) => EndsWith(Definition, tasks \o todo, e)
    BY <1>1, <1>7, EndsAfter DEF TasksAre
  <2> QED
    BY <1>2, <1>3, <1>4, <1>7, <2>1 DEF BeforeRequirements, BeforeFileError
<1>8. CASE todo' = <<Return>> /\ error' \notin Complaints \cup {"none"}
  BY <1>1, <1>8 DEF HasThrown
<1>9. CASE MissingFile
  BY <1>4, <1>9, FileEnds DEF MissingFile
<1> QED
  BY <1>5, <1>6, <1>7, <1>8, <1>9 DEF Moved

(* The step that judges does what the first task says.                     *)
LEMMA JudgeTask ==
  ASSUME Judges
  PROVE  /\ Head(todo).do \in {"help", "requirements", "extras", "file_error"}
         /\ Head(todo).do = "requirements" => process_requirements
         /\ Head(todo).do = "extras" => process_extras
         /\ Head(todo).do = "file_error" => FileError
BY DEF Judges, process_help_flags, process_requirements, process_extras, FileError, Doing

(* What judges the root when it is not yet judged.                         *)
LEMMA UnjudgedIsJudged ==
  ASSUME TypeInv, Unjudged, Judges
  PROVE  Unjudged' \/ HasThrown' \/ JudgedOnce'
<1>1. /\ cli \in DOMAIN Interfaces /\ IsSequence(todo) /\ error = "none" /\ todo # <<>>
      /\ UNCHANGED <<cli, apps, options>>
      /\ (todo' = Tail(todo) /\ error' = error) \/ (todo' = <<Return>> /\ error' # "none")
  BY JudgesKeep DEF TypeInv, TasksAre, Unjudged, Kept
<1>2. /\ Requirements(Root)' = Requirements(Root) /\ LastTasks' = LastTasks /\ FileStack' = FileStack
      /\ Return' = Return /\ Root' = Root /\ Definition' = Definition
  BY <1>1, SameJudgements
<1>3. IsSequence(LastTasks) /\ IsSequence(FileStack) /\ \A f : IsSequence(FrameStack(f))
  BY LastTasksAre, FileStackIs, FrameStackIs
<1>4. \/ EndsWith(Definition, todo, LastTasks) \/ EndsWith(Definition, todo, FileStack)
      \/ \E f : IsRootFrame(Definition, f) /\ EndsWith(Definition, todo, FrameStack(f))
  BY DEF Unjudged, AtRootFrame, BeforeRequirements, BeforeFileError
<1>5. CASE todo' = <<Return>> /\ error' # "none"
  BY <1>2, <1>5 DEF HasThrown
<1>6. CASE todo' = Tail(todo) /\ error' = error
  <2>1. \A e : IsSequence(e) /\ EndsWith(Definition, todo, e) => todo = e \/ EndsWith(Definition, Tail(todo), e)
    BY <1>1, EndsHead
  <2>2. CASE todo = LastTasks
    <3>1. Head(todo) = Task("requirements", Root)
      BY <2>2, LastTasksAre
    <3>2. process_requirements /\ Of = Root
      BY <3>1, JudgeTask DEF Of, Task
    <3>3. Requirements(Root) = "none"
      <4>1. Raise(Requirements(Root), <<>>)
        BY <3>2 DEF process_requirements
      <4> DEFINE e == Requirements(Root)
      <4> HIDE DEF e
      <4>2. e # "none" => Throw(e)
        BY <4>1 DEF Raise, e
      <4>3. e = "none"
        BY <1>1, <1>6, <4>2 DEF Throw
      <4> QED
        BY <4>3 DEF e
    <3>4. todo' = <<Task("extras", Root), Task("run_final", Root), Return>>
      BY <1>6, <2>2, LastTasksAre
    <3> QED
      BY <1>1, <1>2, <1>6, <3>3, <3>4 DEF JudgedOnce, Judged
  <2>3. CASE todo = FileStack
    <3>1. Head(todo) = Task("file_error", Root)
      BY <2>3, FileStackIs, FrameStackIs
    <3>2. FileError
      BY <3>1, JudgeTask DEF Task
    <3> QED
      BY <1>1, <1>6, <3>2 DEF FileError, Throw
  <2>4. ASSUME NEW f, IsRootFrame(Definition, f), todo = FrameStack(f)
        PROVE  FALSE
    <3>1. Head(todo) = f
      BY <2>4, FrameStackIs
    <3> QED
      BY <2>4, <3>1, JudgeTask DEF IsRootFrame, Frames
  <2>5. \/ EndsWith(Definition, todo', LastTasks) \/ EndsWith(Definition, todo', FileStack)
        \/ \E f : IsRootFrame(Definition, f) /\ EndsWith(Definition, todo', FrameStack(f))
        \/ todo = LastTasks \/ todo = FileStack
    BY <1>3, <1>4, <1>6, <2>1, <2>4
  <2> DEFINE s == todo'
  <2>6. ASSUME \/ EndsWith(Definition, s, LastTasks) \/ EndsWith(Definition, s, FileStack)
               \/ \E f : IsRootFrame(Definition, f) /\ EndsWith(Definition, s, FrameStack(f))
        PROVE  Unjudged'
    BY <1>1, <1>2, <1>6, <2>6 DEF Unjudged, AtRootFrame, BeforeRequirements, BeforeFileError, FrameStack
  <2> QED
    BY <2>2, <2>3, <2>5, <2>6 DEF JudgedOnce
<1> QED
  BY <1>1, <1>5, <1>6

(* The root was judged: what is left over, the callbacks, the return.      *)
LEMMA JudgedGoesOn ==
  ASSUME TypeInv, JudgedOnce, Quietly
  PROVE  HasThrown' \/ JudgedOnce'
<1> DEFINE three == <<Task("extras", Root), Task("run_final", Root), Return>>
           two == <<Task("run_final", Root), Return>>
           one == <<Return>>
<1>1. /\ three # <<>> /\ Head(three) = Task("extras", Root) /\ Tail(three) = two
      /\ two # <<>> /\ Head(two) = Task("run_final", Root) /\ Tail(two) = one
      /\ one # <<>> /\ Head(one).do = "return"
  BY DEF Return, Task
<1>2. error = "none" /\ Requirements(Root) = "none"
      /\ (todo = three \/ (Extras(Root) = "none" /\ (todo = two \/ todo = one)))
  BY DEF JudgedOnce, Judged
<1> HIDE DEF three, two, one
<1>3. CASE Judges
  <2>1. /\ UNCHANGED <<cli, apps, options>>
        /\ (todo' = Tail(todo) /\ error' = error) \/ (todo' = <<Return>> /\ error' # "none")
    BY <1>3, JudgesKeep DEF Kept
  <2>2. /\ Requirements(Root)' = Requirements(Root) /\ Extras(Root)' = Extras(Root)
        /\ Return' = Return /\ Root' = Root
    BY <2>1, SameJudgements
  <2>3. todo = three
    BY <1>1, <1>2, <1>3, JudgeTask DEF Task
  <2>4. process_extras /\ Of = Root
    BY <1>1, <1>3, <2>3, JudgeTask DEF Of, Task
  <2>5. CASE todo' = <<Return>> /\ error' # "none"
    BY <2>2, <2>5 DEF HasThrown
  <2>6. CASE todo' = Tail(todo) /\ error' = error
    <3>1. Extras(Root) = "none"
      <4>1. Raise(Extras(Root), <<>>)
        BY <2>4 DEF process_extras
      <4> DEFINE e == Extras(Root)
      <4> HIDE DEF e
      <4>2. e # "none" => Throw(e)
        BY <4>1 DEF Raise, e
      <4>3. e = "none"
        BY <1>2, <2>6, <4>2 DEF Throw
      <4> QED
        BY <4>3 DEF e
    <3> QED
      BY <1>1, <1>2, <2>2, <2>3, <2>6, <3>1 DEF JudgedOnce, Judged, two
  <2> QED
    BY <2>1, <2>5, <2>6
<1>4. CASE ~Judges
  <2>1. Head(todo).do \in {"extras", "run_final", "return"}
    BY <1>1, <1>2 DEF Task
  <2>2. RunCallbacks /\ todo = two
    BY <1>1, <1>2, <1>4, <2>1, OtherTasks, NotJudging DEF LateKinds, Task
  <2>3. Then(<<>>) /\ UNCHANGED <<cli, apps, options>>
    BY <2>2 DEF RunCallbacks, Quiet, input, state
  <2>4. todo' = one /\ error' = error
    <3>1. IsSequence(one) /\ todo' = <<>> \o one /\ error' = error
      BY <1>1, <2>2, <2>3, OneFacts DEF Then, one
    <3> QED
      BY <3>1, NothingFirst
  <2>5. /\ Requirements(Root)' = Requirements(Root) /\ Extras(Root)' = Extras(Root)
        /\ Return' = Return /\ Root' = Root
    BY <2>3, SameJudgements
  <2>6. Extras(Root) = "none"
    BY <1>1, <1>2, <2>2 DEF Task
  <2> QED
    BY <1>2, <2>4, <2>5, <2>6 DEF JudgedOnce, Judged, one
<1> QED
  BY <1>3, <1>4

(* A parse begins at the frame of the root, or has thrown.                 *)
LEMMA ParseStartsUnjudged ==
  ASSUME TypeInv, parse
  PROVE  Unjudged' \/ HasThrown'
<1>1. UNCHANGED cli /\ Root = Definition.root
  BY Now DEF parse, TypeInv
<1>2. CASE error' = "none" /\ todo' = <<Task("parse", Root), Return>>
  <2> DEFINE f == Task("parse", Root)
             s == FrameStack(f)
  <2>1. todo' = s /\ IsRootFrame(Definition, f)
    BY <1>1, <1>2 DEF FrameStack, IsRootFrame, Frames, Task
  <2>2. EndsWith(Definition, s, s)
    <3>1. Len(s) = 2
      BY FrameStackIs
    <3> HIDE DEF s
    <3> QED
      BY <3>1 DEF EndsWith
  <2> HIDE DEF f
  <2> QED
    BY <1>1, <1>2, <2>1, <2>2 DEF Unjudged, AtRootFrame, FrameStack, Return, Root, Definition
<1>3. CASE error' = "InvalidError" /\ todo' = <<Return>>
  BY <1>1, <1>3 DEF HasThrown, Return, Root
<1> QED
  BY <1>2, <1>3, ParseMoves

(* The stages follow each other.                                           *)
LEMMA StagesFollow ==
  ASSUME TypeInv, Stages, [Next]_vars
  PROVE  Stages'
<1>1. CASE parse
  BY <1>1, ParseStartsUnjudged DEF Stages
<1>2. CASE Returned
  BY <1>2 DEF Returned, Stages
<1>3. CASE UNCHANGED vars
  <2>1. UNCHANGED <<cli, apps, options, todo, error>>
    BY <1>3 DEF vars, parsing
  <2>2. /\ Requirements(Root)' = Requirements(Root) /\ Extras(Root)' = Extras(Root)
        /\ LastTasks' = LastTasks /\ FileStack' = FileStack
        /\ Return' = Return /\ Root' = Root /\ Definition' = Definition
    BY <2>1, SameJudgements
  <2> QED
    BY <2>1, <2>2 DEF Stages, HasThrown, Unjudged, JudgedOnce, Judged, AtRootFrame, BeforeRequirements,
                      BeforeFileError, FrameStack
<1>4. CASE Quietly
  <2>1. todo # <<>>
    BY <1>4, SameParse
  <2>2. CASE Unjudged
    <3>1. CASE Judges
      BY <2>2, <3>1, UnjudgedIsJudged DEF Stages
    <3>2. CASE ~Judges
      BY <1>4, <2>1, <2>2, <3>2, QuietlyMoves, UnjudgedMoves DEF Stages, Kept
    <3> QED
      BY <3>1, <3>2
  <2>3. CASE JudgedOnce
    BY <1>4, <2>3, JudgedGoesOn DEF Stages
  <2>4. CASE HasThrown
    <3>1. Head(todo).do = "return"
      BY <2>4 DEF HasThrown, Return, Task
    <3> QED
      BY <1>4, <3>1, NotJudging, JudgeTask
  <2> QED
    BY <2>1, <2>2, <2>3, <2>4 DEF Stages
<1> QED
  BY <1>1, <1>2, <1>3, <1>4 DEF Next, Step, Quietly

(* Whoever succeeds was judged.                                            *)
LEMMA SuccessIsJudged ==
  ASSUME TypeInv, Stages, Success
  PROVE  Requirements(Root) = "none" /\ Extras(Root) = "none"
<1>1. todo # <<>> /\ Head(todo).do = "return" /\ error = "none" /\ IsSequence(todo)
  BY DEF Success, Done, Doing, TypeInv, TasksAre
<1>2. \A e : IsSequence(e) /\ EndsWith(Definition, todo, e) => todo = e
  BY <1>1, EndsHead DEF Inner
<1>3. ~Unjudged
  BY <1>1, <1>2, LastTasksAre, FileStackIs, FrameStackIs
     DEF Unjudged, AtRootFrame, BeforeRequirements, BeforeFileError, IsRootFrame, Frames, Task
<1>4. JudgedOnce
  BY <1>1, <1>3 DEF Stages, HasThrown
<1> QED
  BY <1>1, <1>4 DEF JudgedOnce, Judged, Task

-----------------------------------------------------------------------------
(* Counted, unfolded once: an app and its groups.                          *)
CountedAt(f, b) == {b} \cup UNION {f[g] : g \in Groups(b)}
IsCounted(f) == f = [b \in Apps |-> CountedAt(f, b)]
WithGroups(b) == {S \in SUBSET Apps : b \in S /\ \A c \in S : Groups(c) \subseteq S}

(* Counted is a function that solves this equation.                        *)
LEMMA CountedIs == \A a : Counted(a) = (CHOOSE f : IsCounted(f))[a]
BY DEF Counted, IsCounted, CountedAt

(* The groups of an app are apps that it lists, and none is the root.      *)
LEMMA GroupsAre ==
  ASSUME cli \in DOMAIN Interfaces, NEW b \in Apps
  PROVE  /\ Groups(b) \subseteq SubsIn(Definition, b) /\ Groups(b) \subseteq Apps
         /\ \A g \in Groups(b) : Nameless(g) /\ App(g).parent = b /\ g # Root /\ g \in Under(Definition, b)
<1>1. IsTree(Definition) /\ b \in DOMAIN Definition.apps /\ Range(App(b).subs) = SubsIn(Definition, b)
  BY Now DEF SubsIn
<1>2. Groups(b) \subseteq SubsIn(Definition, b) /\ \A g \in Groups(b) : Nameless(g)
  BY <1>1 DEF Groups
<1>3. \A g \in SubsIn(Definition, b) : /\ g \in DOMAIN Definition.apps /\ Definition.apps[g].parent = b
                                       /\ g # Definition.root /\ g \in Under(Definition, b)
  BY <1>1, TreeIs, UnderSub
<1> QED
  BY <1>2, <1>3, Now

(* One unfolding gives a set closed under groups, if those of the groups do. *)
LEMMA CountedType ==
  ASSUME cli \in DOMAIN Interfaces, NEW b \in Apps, NEW f,
         \A c \in SubsIn(Definition, b) : f[c] \in WithGroups(c)
  PROVE  CountedAt(f, b) \in WithGroups(b)
<1>1. \A g \in Groups(b) : f[g] \in SUBSET Apps /\ g \in f[g] /\ \A c \in f[g] : Groups(c) \subseteq f[g]
  BY GroupsAre DEF WithGroups
<1>2. CountedAt(f, b) \in SUBSET Apps /\ b \in CountedAt(f, b)
  BY <1>1 DEF CountedAt
<1>3. ASSUME NEW c \in CountedAt(f, b)
      PROVE  Groups(c) \subseteq CountedAt(f, b)
  BY <1>1, <1>3 DEF CountedAt
<1> QED
  BY <1>2, <1>3 DEF WithGroups

(* One unfolding depends on the apps listed only.                          *)
LEMMA CountedAgrees ==
  ASSUME cli \in DOMAIN Interfaces, NEW b \in Apps, NEW f, NEW g,
         \A c \in SubsIn(Definition, b) : f[c] = g[c]
  PROVE  CountedAt(f, b) = CountedAt(g, b)
BY GroupsAre DEF CountedAt

(* Counted(a) holds a, and the groups of what it holds.                    *)
LEMMA CountedFacts ==
  ASSUME cli \in DOMAIN Interfaces, NEW a \in Apps
  PROVE  a \in Counted(a) /\ \A b \in Counted(a) : b \in Apps /\ Groups(b) \subseteq Counted(a)
<1> DEFINE D == Apps
           V == [b \in Apps |-> WithGroups(b)]
           Dep == SubsOf
           Fam == Family(D, V)
           Body(f, b) == CountedAt(f, b)
           F == [f \in Fam |-> [b \in D |-> Body(f, b)]]
<1>1. /\ IsFiniteSet(D) /\ Grounded(D, Dep) /\ \A b \in D : Dep[b] \subseteq D
      /\ \A b \in D : V[b] # {}
  <2>1. \A b \in Apps : Apps \in WithGroups(b)
    BY GroupsAre DEF WithGroups
  <2> QED
    BY <2>1, Now, NowGrounded
<1>2. ASSUME NEW f, NEW b \in D, \A c \in Dep[b] : f[c] \in V[c]
      PROVE  Body(f, b) \in V[b]
  <2>1. \A c \in SubsIn(Definition, b) : f[c] \in WithGroups(c)
    BY <1>1, <1>2 DEF SubsOf
  <2> QED
    BY <2>1, CountedType
<1>3. ASSUME NEW f, NEW g, NEW b \in D, \A c \in Dep[b] : f[c] = g[c]
      PROVE  Body(f, b) = Body(g, b)
  BY <1>3, CountedAgrees DEF SubsOf
<1> HIDE DEF Body, V, Dep, D
<1>4. F \in [Fam -> Fam]
  <2> SUFFICES ASSUME NEW f \in Fam PROVE [b \in D |-> Body(f, b)] \in Fam
    OBVIOUS
  <2>1. \A b \in D : Body(f, b) \in V[b]
    BY <1>1, <1>2 DEF Family
  <2> QED
    BY <2>1 DEF Family
<1>5. \A f, g \in Fam : \A b \in D : (\A c \in Dep[b] \cap D : f[c] = g[c]) => F[f][b] = F[g][b]
  BY <1>1, <1>3
<1> HIDE DEF F
<1>6. PICK f \in Fam : F[f] = f
  <2>1. Unfolding(D, Dep, V, F)
    BY <1>1, <1>4, <1>5 DEF Unfolding
  <2> QED
    BY <2>1, RecursionDefined
<1>7. IsCounted(f)
  BY <1>6 DEF IsCounted, Body, F, D
<1> DEFINE g == CHOOSE h : IsCounted(h)
<1>8. IsCounted(g)
  BY <1>7
<1> HIDE DEF g
<1>9. \A b \in D : g[b] = Body(g, b)
  BY <1>8 DEF IsCounted, Body, D
<1> DEFINE P == {b \in D : g[b] \in V[b]}
<1>10. D \subseteq P
  <2>1. \A b \in D : Dep[b] \cap D \subseteq P => b \in P
    BY <1>1, <1>2, <1>9
  <2> HIDE DEF P
  <2> QED
    BY <1>1, <2>1, GroundedInduction
<1>11. g[a] \in WithGroups(a)
  BY <1>10 DEF V, D
<1> QED
  BY <1>11, CountedIs DEF g, WithGroups

(***************************************************************************)
(* Who is counted: with an app its groups are, but for a command that      *)
(* starts afresh.                                                          *)
(***************************************************************************)
SameCounts(as, bs) == \A b \in Apps : bs[b].parsed = as[b].parsed

AllCounted(as, but) ==
  \A b \in Apps \ but : ~LosesCounts(b) /\ as[b].parsed > 0 => \A g \in Groups(b) : as[g].parsed > 0

(* increment_parsed, as it counts.                                         *)
LEMMA IncrementedCounts ==
  ASSUME cli \in DOMAIN Interfaces, NEW as, AppsAre(Definition, as), NEW a \in Apps, NEW b \in Apps
  PROVE  /\ as[b].parsed \in Nat
         /\ Incremented(a, as)[b].parsed = IF b \in Counted(a) THEN as[b].parsed + 1 ELSE as[b].parsed
<1>1. b \in DOMAIN as /\ IsAppState(Definition, b, as[b])
  BY Now DEF AppsAre
<1>2. as[b].parsed \in Nat /\ [as[b] EXCEPT !.parsed = as[b].parsed + 1].parsed = as[b].parsed + 1
  BY <1>1 DEF IsAppState, AppFields
<1> QED
  BY <1>1, <1>2 DEF Incremented

(* _trigger_pre_parse, as it counts: what is below an app that starts      *)
(* afresh loses its count.                                                 *)
LEMMA TriggeredCounts ==
  ASSUME cli \in DOMAIN Interfaces, NEW as, AppsAre(Definition, as), NEW a \in Apps, NEW b \in Apps
  PROVE  Triggered(a, as)[b].parsed =
           IF StartsAfresh(a, as) /\ b # a /\ b \in Below(a) THEN 0 ELSE as[b].parsed
<1>1. b \in DOMAIN as /\ IsAppState(Definition, b, as[b])
  BY Now DEF AppsAre
<1> DEFINE r == as[b]
<1>2. r = [k \in AppFields |-> r[k]]
  BY <1>1 DEF IsAppState
<1>3. /\ \A x, y : [r EXCEPT !.disabled = x, !.pre_parse_called = y].parsed = r.parsed
      /\ ClearedApp(r).parsed = 0
      /\ \A n, m, x : [ClearedApp(r) EXCEPT !.parsed = n, !.missing = m, !.pre_parse_called = x].parsed = n
  <2> HIDE DEF r
  <2>1. \A x, y : [r EXCEPT !.disabled = x, !.pre_parse_called = y].parsed = r.parsed
    BY <1>2 DEF AppFields
  <2> DEFINE c == ClearedApp(r)
  <2>2. c = [k \in AppFields |-> c[k]] /\ c.parsed = 0
    BY <1>2 DEF ClearedApp, AppFields
  <2> HIDE DEF c
  <2>3. \A n, m, x : [c EXCEPT !.parsed = n, !.missing = m, !.pre_parse_called = x].parsed = n
    BY <2>2 DEF AppFields
  <2> QED
    BY <2>1, <2>2, <2>3 DEF c
<1>4. CASE FirstUse(a, as)
  <2> DEFINE x == (as[b].disabled \/ b \in App(a).disables) /\ b \notin App(a).enables
             y == as[b].pre_parse_called \/ b = a
  <2>1. Enabled(a, as)[b] = [as[b] EXCEPT !.disabled = x, !.pre_parse_called = y]
    BY <1>1 DEF Enabled
  <2> HIDE DEF x, y
  <2>2. Enabled(a, as)[b].parsed = as[b].parsed
    BY <1>3, <2>1
  <2> QED
    BY <1>4, <2>2 DEF Triggered, StartsAfresh
<1>5. CASE ~FirstUse(a, as) /\ ~StartsAfresh(a, as)
  BY <1>5 DEF Triggered
<1>6. CASE StartsAfresh(a, as)
  <2> DEFINE whole == [ClearedApp(as[b]) EXCEPT !.parsed = as[b].parsed, !.missing = as[b].missing,
                                                !.pre_parse_called = TRUE]
  <2>1. ~FirstUse(a, as)
    BY <1>6 DEF StartsAfresh
  <2>2. Triggered(a, as)[b] = IF b = a THEN whole ELSE IF b \in Below(a) THEN ClearedApp(as[b]) ELSE as[b]
    BY <1>1, <1>6, <2>1 DEF Triggered
  <2>3. whole.parsed = as[b].parsed /\ ClearedApp(as[b]).parsed = 0
    BY <1>3
  <2> HIDE DEF whole
  <2> QED
    BY <1>6, <2>2, <2>3
<1> QED
  BY <1>4, <1>5, <1>6

(* An app and its groups are counted together, and the root stays counted. *)
LEMMA IncrementedAll ==
  ASSUME cli \in DOMAIN Interfaces, NEW as, AppsAre(Definition, as), NEW a \in Apps, NEW but,
         AllCounted(as, but)
  PROVE  /\ AllCounted(Incremented(a, as), but)
         /\ as[Root].parsed > 0 => Incremented(a, as)[Root].parsed > 0
         /\ Incremented(a, as)[a].parsed > 0
<1> DEFINE bs == Incremented(a, as)
<1>1. \A b \in Apps : /\ as[b].parsed \in Nat
                      /\ bs[b].parsed = IF b \in Counted(a) THEN as[b].parsed + 1 ELSE as[b].parsed
  BY IncrementedCounts
<1> HIDE DEF bs
<1>5. \A n \in Nat : n + 1 > 0
  OBVIOUS
<1>6. \A b \in Apps : /\ b \in Counted(a) => bs[b].parsed > 0
                      /\ b \notin Counted(a) => bs[b].parsed = as[b].parsed
  BY <1>1, <1>5
<1>2. ASSUME NEW b \in Apps \ but, ~LosesCounts(b), bs[b].parsed > 0, NEW g \in Groups(b)
      PROVE  bs[g].parsed > 0
  <2>1. g \in Apps
    BY GroupsAre
  <2>2. CASE b \in Counted(a)
    <3>1. g \in Counted(a)
      BY <2>2, CountedFacts
    <3> QED
      BY <1>6, <2>1, <3>1
  <2>3. CASE b \notin Counted(a)
    <3>1. as[g].parsed > 0
      BY <1>2, <1>6, <2>3 DEF AllCounted
    <3> QED
      BY <1>6, <2>1, <3>1
  <2> QED
    BY <2>2, <2>3
<1>3. AllCounted(bs, but)
  BY <1>2 DEF AllCounted
<1>4. Root \in Apps /\ a \in Counted(a)
  BY Now, CountedFacts
<1> QED
  BY <1>3, <1>4, <1>6 DEF bs

(* What is below an app that starts afresh is no longer counted, and       *)
(* nothing else.                                                           *)
LEMMA TriggeredAll ==
  ASSUME cli \in DOMAIN Interfaces, NEW as, AppsAre(Definition, as), NEW a \in Apps, NEW but,
         AllCounted(as, but)
  PROVE  /\ AllCounted(Triggered(a, as), but)
         /\ as[Root].parsed > 0 => Triggered(a, as)[Root].parsed > 0
<1> DEFINE bs == Triggered(a, as)
           lost(b) == StartsAfresh(a, as) /\ b # a /\ b \in Below(a)
<1>1. \A b \in Apps : bs[b].parsed = IF lost(b) THEN 0 ELSE as[b].parsed
  BY TriggeredCounts
<1>2. /\ Below(a) = {a} \cup Under(Definition, a) /\ IsTree(Definition) /\ a \in DOMAIN Definition.apps
      /\ Root = Definition.root /\ Root \in Apps
  BY Now, BelowFacts
<1>3. ASSUME NEW g \in Apps, g \in Under(Definition, a)
      PROVE  g # Root /\ (App(g).parent = a \/ App(g).parent \in Under(Definition, a))
  BY <1>2, <1>3, UnderParent, Now
<1> HIDE DEF bs
<1>4. ASSUME NEW b \in Apps \ but, ~LosesCounts(b), bs[b].parsed > 0, NEW g \in Groups(b)
      PROVE  bs[g].parsed > 0
  <2>1. g \in Apps /\ App(g).parent = b
    BY GroupsAre
  <2>2. ~lost(b) /\ as[b].parsed > 0
    <3>1. bs[b].parsed = IF lost(b) THEN 0 ELSE as[b].parsed
      BY <1>1
    <3>2. CASE lost(b)
      <4>1. bs[b].parsed = 0
        BY <3>1, <3>2
      <4> QED
        BY <1>4, <4>1
    <3>3. CASE ~lost(b)
      BY <1>4, <3>1, <3>3
    <3> QED
      BY <3>2, <3>3
  <2>3. as[g].parsed > 0
    BY <1>4, <2>2 DEF AllCounted
  <2>4. ~lost(g)
    <3> SUFFICES ASSUME lost(g) PROVE FALSE
      OBVIOUS
    <3>1. g \in Under(Definition, a) /\ StartsAfresh(a, as)
      BY <1>2
    <3>2. b = a \/ b \in Under(Definition, a)
      BY <1>3, <2>1, <3>1
    <3>3. b = a
      BY <1>2, <2>2, <3>1, <3>2
    <3> QED
      BY <1>4, <3>1, <3>3 DEF StartsAfresh, LosesCounts
  <2> QED
    BY <1>1, <2>1, <2>3, <2>4
<1>5. AllCounted(bs, but)
  BY <1>4 DEF AllCounted
<1>6. ~lost(Root)
  BY <1>2, <1>3
<1> QED
  BY <1>1, <1>2, <1>5, <1>6 DEF bs

(* What becomes of the counts in a step of a parse.                        *)
CountsMoved ==
  \/ SameCounts(apps, apps')
  \/ \E a \in Apps : \E as :
       /\ AppsAre(Definition, as) /\ SameCounts(apps, as)
       /\ apps' = Triggered(a, as) \/ apps' = Triggered(a, Incremented(a, as))

(* What is written beside the counts leaves them.                          *)
LEMMA CountsBeside ==
  ASSUME cli \in DOMAIN Interfaces, NEW as, AppsAre(Definition, as), NEW k, NEW m
  PROVE  /\ SameCounts(as, as)
         /\ SameCounts(as, [as EXCEPT ![k].missing = m])
         /\ SameCounts(as, [as EXCEPT ![k].parse_order = m])
         /\ SameCounts(as, [as EXCEPT ![k].parsed_subcommands = m])
<1>1. ASSUME NEW b \in Apps
      PROVE  /\ [as EXCEPT ![k].missing = m][b].parsed = as[b].parsed
             /\ [as EXCEPT ![k].parse_order = m][b].parsed = as[b].parsed
             /\ [as EXCEPT ![k].parsed_subcommands = m][b].parsed = as[b].parsed
  <2>1. b \in DOMAIN as /\ IsAppState(Definition, b, as[b])
    BY Now DEF AppsAre
  <2>2. as[b] = [x \in AppFields |-> as[b][x]]
    BY <2>1 DEF IsAppState
  <2> QED
    BY <2>1, <2>2 DEF AppFields
<1> QED
  BY <1>1 DEF SameCounts

(* _parse of an app begins: it is counted, and what starts afresh.         *)
LEMMA EnterCounts ==
  ASSUME NEW a \in Apps, NEW as, AppsAre(Definition, as), SameCounts(apps, as),
         Enter(a, as) \/ Trigger(a, as)
  PROVE  CountsMoved
BY DEF Enter, Trigger, CountsMoved

(* The apps that a step finds.                                             *)
LEMMA AppsFound ==
  ASSUME TypeInv
  PROVE  cli \in DOMAIN Interfaces /\ AppsAre(Definition, apps) /\ SameCounts(apps, apps)
         /\ (UNCHANGED apps => CountsMoved)
BY DEF TypeInv, SameCounts, CountsMoved

(* What is left over, or used, is written beside the counts.               *)
LEMMA WritesCounts ==
  ASSUME TypeInv, NEW k, NEW m,
         \/ apps' = [apps EXCEPT ![k].missing = m]
         \/ apps' = [apps EXCEPT ![k].parse_order = m]
  PROVE  CountsMoved
<1>1. /\ SameCounts(apps, [apps EXCEPT ![k].missing = m])
      /\ SameCounts(apps, [apps EXCEPT ![k].parse_order = m])
  BY AppsFound, CountsBeside
<1>2. SameCounts(apps, apps')
  BY <1>1
<1> QED
  BY <1>2 DEF CountsMoved

(* A place for an argument that names nothing.                             *)
LEMMA PositionalCounts ==
  ASSUME TypeInv, NEW place \in Places, NEW mode, positional(place, mode), place.kind # "leave"
  PROVE  CountsMoved
<1>1. /\ place.app \in Apps
      /\ place.kind \in {"option", "subcommand", "missing", "extras"}
  BY DEF Places
<1>2. CASE place.kind = "option"
  <2>1. apps' = Ordered(place.app, place.option, 1)
    BY <1>2 DEF positional
  <2> QED
    BY <2>1, WritesCounts DEF Ordered
<1>3. CASE place.kind = "subcommand"
  <2>1. Enter(place.app, apps)
    BY <1>3 DEF positional
  <2> QED
    BY <1>1, <2>1, AppsFound, EnterCounts
<1>4. CASE place.kind = "missing"
  <2>1. \E m : apps' = [apps EXCEPT ![Keeper(place.app)].missing = m]
    BY <1>4 DEF positional
  <2> QED
    BY <2>1, WritesCounts
<1>5. CASE place.kind = "extras"
  BY <1>5, AppsFound DEF positional, state
<1> QED
  BY <1>1, <1>2, <1>3, <1>4, <1>5

(* The line, argument by argument.                                         *)
LEMMA ParseSingleCounts ==
  ASSUME TypeInv, ParseSingle
  PROVE  CountsMoved
<1>1. CASE PositionalMark
  <2>1. UNCHANGED apps \/ apps' = [apps EXCEPT ![Keeper(Of)].missing = Append(@, <<"POSITIONAL_MARK", Head(args)>>)]
    BY <1>1 DEF PositionalMark
  <2> QED
    BY <2>1, AppsFound, WritesCounts
<1>2. CASE SubcommandTerminator
  BY <1>2, AppsFound DEF SubcommandTerminator, state
<1>3. CASE ParsePositional
  <2>1. Here \in Places
    BY <1>3, HereIs DEF ParsePositional
  <2>2. UNCHANGED apps \/ (Here.kind # "leave" /\ \E mode : positional(Here, mode))
    BY <1>3 DEF ParsePositional, state
  <2> QED
    BY <2>1, <2>2, AppsFound, PositionalCounts
<1>4. CASE RequiredPositional
  <2>1. Here \in Places
    BY <1>4, HereIs DEF RequiredPositional
  <2>2. UNCHANGED apps \/ (Here.kind # "leave" /\ positional(Here, Head(todo)))
    BY <1>4 DEF RequiredPositional, state
  <2> QED
    BY <2>1, <2>2, AppsFound, PositionalCounts
<1>5. CASE Subcommand
  <2> DEFINE com == find_subcommand(Of, Head(args), TRUE, TRUE)
             listed == IF App(com).silent THEN apps
                       ELSE [apps EXCEPT ![Of].parsed_subcommands = Append(@, com)]
  <2>1. cli \in DOMAIN Interfaces /\ Of \in Apps /\ AppsAre(Definition, apps)
    BY <1>5, Unfailing DEF Subcommand, TypeInv
  <2>2. com = NoApp \/ com \in Under(Definition, Of)
    BY <2>1, FindSubcommand
  <2>3. CASE com = NoApp
    BY <1>5, <2>3, AppsFound DEF Subcommand, state
  <2>4. CASE com # NoApp
    <3>1. Enter(com, listed)
      BY <1>5, <2>4 DEF Subcommand
    <3>2. com \in Under(Definition, Of) /\ com \in Apps
      BY <2>1, <2>2, <2>4, UnderParent, Now
    <3> HIDE DEF com
    <3>3. AppsAre(Definition, listed) /\ SameCounts(apps, listed)
      <4>1. /\ AppsAre(Definition, [apps EXCEPT ![Of].parsed_subcommands = Append(@, com)])
            /\ SameCounts(apps, [apps EXCEPT ![Of].parsed_subcommands = Append(@, com)])
        BY <2>1, <3>2, Now, AppsListing, CountsBeside
      <4> QED
        BY <2>1, <4>1, AppsFound
    <3> HIDE DEF listed
    <3> QED
      BY <3>1, <3>2, <3>3, EnterCounts
  <2> QED
    BY <2>3, <2>4
<1>6. CASE ParseArg
  <2>1. PICK class \in {"LONG", "SHORT", "WINDOWS_STYLE"} :
          LET split == SplitArg(Head(args), class) IN
          /\ Classified(class)
          /\ placed_arg(PlaceOfArg(Of, class, split.name), class, split)
    BY <1>6 DEF ParseArg
  <2> DEFINE split == SplitArg(Head(args), class)
             place == PlaceOfArg(Of, class, split.name)
             gift == option_arg(place.app, place.option, split, Tail(args))
  <2>2. cli \in DOMAIN Interfaces /\ Of \in Apps
    BY <2>1, Unfailing
  <2>3. place.kind \in {"option", "missing", "leave"}
    BY <2>2, ArgPlace DEF ArgPlaces
  <2>4. placed_arg(place, class, split)
    BY <2>1
  <2> HIDE DEF split, place
  <2>5. CASE place.kind = "option"
    <3>1. apps' = Ordered(place.app, place.option, gift.values)
      BY <2>4, <2>5 DEF placed_arg, Take
    <3> HIDE DEF gift
    <3> QED
      BY <3>1, WritesCounts DEF Ordered
  <2>6. CASE place.kind = "missing"
    <3>1. apps' = [apps EXCEPT ![Keeper(place.app)].missing = Append(@, <<class, Head(args)>>)]
      BY <2>4, <2>6 DEF placed_arg, Miss
    <3> QED
      BY <3>1, WritesCounts
  <2>7. CASE place.kind = "leave"
    BY <2>4, <2>7, AppsFound DEF placed_arg, state
  <2> QED
    BY <2>3, <2>5, <2>6, <2>7
<1> QED
  BY <1>1, <1>2, <1>3, <1>4, <1>5, <1>6 DEF ParseSingle

(* The configuration file, item by item.                                   *)
LEMMA ConfigureCounts ==
  ASSUME TypeInv, Configure
  PROVE  CountsMoved
<1>1. CASE UNCHANGED apps
  BY <1>1, AppsFound
<1>2. CASE UnknownItem
  <2>1. UNCHANGED apps \/ apps' = [apps EXCEPT ![TheApp].missing = Append(@, <<"NONE", TheItem.name>>)]
    BY <1>2 DEF UnknownItem
  <2> QED
    BY <2>1, AppsFound, WritesCounts
<1>3. CASE OpenSection
  <2>1. TheApp \in Apps /\ cli \in DOMAIN Interfaces /\ AppsAre(Definition, apps)
    BY <1>3, TheItemIs DEF OpenSection, TypeInv
  <2> DEFINE listed == IF IsRoot(TheApp) THEN apps
                       ELSE [apps EXCEPT ![App(TheApp).parent].parsed_subcommands = Append(@, TheApp)]
  <2>2. AppsAre(Definition, listed) /\ SameCounts(apps, listed)
    <3>1. ~IsRoot(TheApp) => App(TheApp).parent \in Apps /\ TheApp \in Under(Definition, App(TheApp).parent)
      BY <2>1, RootIs
    <3>2. ~IsRoot(TheApp) =>
            LET as == [apps EXCEPT ![App(TheApp).parent].parsed_subcommands = Append(@, TheApp)]
            IN  AppsAre(Definition, as) /\ SameCounts(apps, as)
      BY <2>1, <3>1, Now, AppsListing, CountsBeside
    <3> QED
      BY <2>1, <3>2, AppsFound
  <2>3. Enter(TheApp, listed) \/ UNCHANGED <<state, called>>
    BY <1>3 DEF OpenSection
  <2> HIDE DEF listed
  <2> QED
    BY <2>1, <2>2, <2>3, EnterCounts, AppsFound DEF state
<1> QED
  BY <1>1, <1>2, <1>3 DEF Configure, process_config_file, ReadFile, FileRead, FileError, ItemsDone, CloseSection,
                          OptionItem, state

(* In every step of a parse the counts move as they may.                   *)
LEMMA QuietlyCounts ==
  ASSUME TypeInv, Quietly
  PROVE  CountsMoved
<1>1. CASE Process
  BY <1>1, AppsFound DEF Process, process_env, process_callbacks, ProcessGroup, ProcessSubcommand,
       OptionCallback, process_help_flags, process_requirements, process_extras, RunCallbacks, state
<1>2. CASE EndOfLine
  BY <1>2, AppsFound DEF EndOfLine, state
<1>3. CASE TouchGroup
  <2>1. todo # <<>>
    BY <1>3 DEF TouchGroup, Doing
  <2>2. Of \in Apps
    BY <2>1, TheTask
  <2>3. Trigger(Of, apps) \/ UNCHANGED apps
    BY <1>3 DEF TouchGroup, state
  <2> QED
    BY <2>2, <2>3, EnterCounts, AppsFound
<1>4. CASE Passed
  <2> DEFINE com == Head(todo).arg
             listed == IF App(com).silent THEN apps
                       ELSE [apps EXCEPT ![Of].parsed_subcommands = Append(@, com)]
  <2>1. todo # <<>> /\ Head(todo).do = "passed"
    BY <1>4 DEF Passed, Doing
  <2>2. Trigger(Of, listed)
    BY <1>4 DEF Passed
  <2>3. Of \in Apps /\ com \in Under(Definition, Of) /\ cli \in DOMAIN Interfaces
    BY <2>1, TheTask DEF IsTask, Of
  <2> HIDE DEF com
  <2>4. AppsAre(Definition, listed) /\ SameCounts(apps, listed)
    <3>1. LET as == [apps EXCEPT ![Of].parsed_subcommands = Append(@, com)]
          IN  AppsAre(Definition, as) /\ SameCounts(apps, as)
      BY <2>3, Now, AppsListing, AppsFound, CountsBeside
    <3> QED
      BY <3>1, AppsFound
  <2> HIDE DEF listed
  <2> QED
    BY <2>2, <2>3, <2>4, EnterCounts
<1> QED
  BY <1>1, <1>2, <1>3, <1>4, ParseSingleCounts, ConfigureCounts DEF Quietly

(* The root is counted while it parses, and who is counted has its groups  *)
(* counted: not so the root of a definition that is invalid.               *)
NotRoot == IF error = "none" THEN {} ELSE {Root}
CountsInv ==
  /\ todo # <<>> => apps[Root].parsed > 0
  /\ AllCounted(apps, NotRoot)

(* Only the counts are asked.                                              *)
LEMMA SameAllCounted ==
  ASSUME cli \in DOMAIN Interfaces, NEW as, NEW bs, SameCounts(as, bs), NEW but, AllCounted(as, but)
  PROVE  AllCounted(bs, but) /\ (as[Root].parsed > 0 => bs[Root].parsed > 0)
<1>1. Root \in Apps /\ \A b \in Apps : Groups(b) \subseteq Apps
  BY Now, GroupsAre
<1> QED
  BY <1>1 DEF SameCounts, AllCounted

(* The fewer are let off, the more is said.                                *)
LEMMA MoreCounted ==
  ASSUME NEW as, NEW but, AllCounted(as, but), NEW more, but \subseteq more
  PROVE  AllCounted(as, more)
BY DEF AllCounted

(* What moves keeps the groups counted.                                    *)
LEMMA MovedAll ==
  ASSUME TypeInv, CountsMoved, NEW but, AllCounted(apps, but)
  PROVE  AllCounted(apps', but) /\ (apps[Root].parsed > 0 => apps'[Root].parsed > 0)
<1>1. cli \in DOMAIN Interfaces
  BY AppsFound
<1>2. CASE SameCounts(apps, apps')
  BY <1>1, <1>2, SameAllCounted
<1>3. ASSUME NEW a \in Apps, NEW as, AppsAre(Definition, as), SameCounts(apps, as),
             apps' = Triggered(a, as) \/ apps' = Triggered(a, Incremented(a, as))
      PROVE  AllCounted(apps', but) /\ (apps[Root].parsed > 0 => apps'[Root].parsed > 0)
  <2>1. AllCounted(as, but) /\ (apps[Root].parsed > 0 => as[Root].parsed > 0)
    BY <1>1, <1>3, SameAllCounted
  <2> DEFINE more == Incremented(a, as)
  <2>2. AppsAre(Definition, more) /\ AllCounted(more, but) /\ (as[Root].parsed > 0 => more[Root].parsed > 0)
    BY <1>1, <1>3, <2>1, IncrementedAre, IncrementedAll
  <2>3. CASE apps' = Triggered(a, as)
    BY <1>1, <1>3, <2>1, <2>3, TriggeredAll
  <2>4. CASE apps' = Triggered(a, more)
    <3> HIDE DEF more
    <3> QED
      BY <1>1, <2>1, <2>2, <2>4, TriggeredAll
  <2> QED
    BY <1>3, <2>3, <2>4
<1> QED
  BY <1>2, <1>3 DEF CountsMoved

(* Who has thrown is not forgotten by a step of the same parse.            *)
LEMMA ErrorsStay ==
  ASSUME TypeInv, Quietly, error' = "none"
  PROVE  error = "none" \/ HasThrown
<1>1. CASE Judges
  BY <1>1, JudgesKeep
<1>2. CASE ~Judges
  <2>1. Moved
    BY <1>2, QuietlyMoves
  <2> QED
    BY <2>1 DEF Moved, MissingFile
<1> QED
  BY <1>1, <1>2

(* A parse begins with the counts of its own.                              *)
LEMMA ParseCounts ==
  ASSUME TypeInv, CountsInv, parse
  PROVE  CountsInv'
<1>1. /\ cli \in DOMAIN Interfaces /\ UNCHANGED cli /\ AppsAre(Definition, clear.apps) /\ Root \in Apps
      /\ AppsAre(Definition, apps)
  BY ClearIs, Now DEF parse, TypeInv
<1> DEFINE as == clear.apps
<1>2. AllCounted(as, {})
  <2>1. CASE apps[Root].parsed > 0
    <3>1. as = [a \in DOMAIN apps |-> ClearedApp(apps[a])]
      BY <2>1 DEF clear
    <3>2. ASSUME NEW b \in Apps
          PROVE  as[b].parsed = 0
      <4>1. b \in DOMAIN apps /\ apps[b] = [k \in AppFields |-> apps[b][k]]
        BY <1>1, Now DEF AppsAre, IsAppState
      <4>2. ClearedApp(apps[b]).parsed = 0
        BY <4>1 DEF ClearedApp, AppFields
      <4> QED
        BY <3>1, <4>1, <4>2
    <3>3. ~ (0 > 0)
      OBVIOUS
    <3> HIDE DEF as
    <3> QED
      BY <3>2, <3>3 DEF AllCounted
  <2>2. CASE ~(apps[Root].parsed > 0)
    <3>1. as = apps
      BY <2>2 DEF clear
    <3>2. AllCounted(apps, {Root})
      BY MoreCounted DEF CountsInv, NotRoot
    <3> QED
      BY <2>2, <3>1, <3>2 DEF AllCounted
  <2> QED
    BY <2>1, <2>2
<1> HIDE DEF as
<1>3. CASE apps' = Triggered(Root, Incremented(Root, _configure(as)))
  <2>1. AppsAre(Definition, _configure(as))
    BY <1>1, ConfiguredAre DEF as
  <2>2. SameCounts(as, _configure(as))
    <3>1. ASSUME NEW b \in Apps
          PROVE  _configure(as)[b].parsed = as[b].parsed
      <4>1. b \in DOMAIN as /\ as[b] = [k \in AppFields |-> as[b][k]]
        BY <1>1, Now DEF AppsAre, IsAppState, as
      <4> DEFINE x == CASE App(b).startup = "enabled" -> FALSE [] App(b).startup = "disabled" -> TRUE
                        [] OTHER -> as[b].disabled
      <4>2. _configure(as)[b] = [as[b] EXCEPT !.disabled = x]
        BY <4>1 DEF _configure
      <4> HIDE DEF x
      <4> QED
        BY <4>1, <4>2 DEF AppFields
    <3> QED
      BY <3>1 DEF SameCounts
  <2>3. AllCounted(_configure(as), {})
    BY <1>1, <1>2, <2>2, SameAllCounted
  <2> DEFINE more == Incremented(Root, _configure(as))
  <2>4. AppsAre(Definition, more) /\ AllCounted(more, {}) /\ more[Root].parsed > 0
    BY <1>1, <2>1, <2>3, IncrementedAre, IncrementedAll
  <2>5. apps' = Triggered(Root, more)
    BY <1>3
  <2> HIDE DEF more
  <2>6. AllCounted(apps', {}) /\ apps'[Root].parsed > 0
    BY <1>1, <2>4, <2>5, TriggeredAll
  <2> QED
    BY <1>1, <2>6 DEF CountsInv, NotRoot, AllCounted, Apps, Groups, LosesCounts, App, Nameless, Root
<1>4. CASE apps' = [as EXCEPT ![Root].parsed = 1] /\ error' = "InvalidError"
  <2>1. Root \in DOMAIN as /\ as[Root] = [k \in AppFields |-> as[Root][k]]
    BY <1>1, Now DEF AppsAre, IsAppState, as
  <2>2. apps'[Root].parsed = 1 /\ \A b \in Apps \ {Root} : apps'[b] = as[b]
    BY <1>4, <2>1 DEF AppFields
  <2>3. \A b \in Apps : \A g \in Groups(b) : g \in Apps \ {Root}
    BY <1>1, GroupsAre
  <2>4. AllCounted(apps', {Root})
    BY <1>2, <2>2, <2>3 DEF AllCounted
  <2>5. 1 > 0
    OBVIOUS
  <2> QED
    BY <1>1, <1>4, <2>2, <2>4, <2>5 DEF CountsInv, NotRoot, AllCounted, Apps, Groups, LosesCounts, App, Nameless, Root
<1>5. \/ apps' = Triggered(Root, Incremented(Root, _configure(as)))
      \/ apps' = [as EXCEPT ![Root].parsed = 1] /\ error' = "InvalidError"
  BY DEF parse, Throw, as
<1> QED
  BY <1>3, <1>4, <1>5

(* The counts stay as they must be.                                        *)
LEMMA CountsFollow ==
  ASSUME TypeInv, Stages, CountsInv, [Next]_vars
  PROVE  CountsInv'
<1>1. CASE parse
  BY <1>1, ParseCounts
<1>2. ASSUME UNCHANGED <<cli, apps, error>>, todo' = todo \/ todo' = <<>>
      PROVE  CountsInv'
  BY <1>2 DEF CountsInv, NotRoot, AllCounted, Apps, Groups, LosesCounts, App, Nameless, Root
<1>3. CASE Returned
  BY <1>2, <1>3 DEF Returned, state, input
<1>4. CASE UNCHANGED vars
  BY <1>2, <1>4 DEF vars, parsing
<1>5. CASE Quietly
  <2>1. todo # <<>> /\ CountsMoved
    BY <1>5, SameParse, QuietlyCounts
  <2>2. UNCHANGED cli
    BY <1>5, QuietlyMoves, JudgesKeep DEF Kept
  <2>3. AllCounted(apps', NotRoot) /\ apps'[Root].parsed > 0
    BY <2>1, MovedAll DEF CountsInv
  <2>4. AllCounted(apps', IF error' = "none" THEN {} ELSE {Root})
    <3>1. CASE error' = "none"
      <4>1. error = "none"
        <5>1. ASSUME HasThrown PROVE FALSE
          <6>1. Head(todo).do = "return"
            BY <5>1 DEF HasThrown, Return, Task
          <6> QED
            BY <1>5, <6>1, NotJudging, JudgeTask
        <5> QED
          BY <1>5, <3>1, <5>1, ErrorsStay
      <4> QED
        BY <2>3, <3>1, <4>1 DEF NotRoot
    <3>2. CASE error' # "none"
      <4>1. NotRoot \subseteq {Root}
        BY DEF NotRoot
      <4> QED
        BY <2>3, <3>2, <4>1, MoreCounted
    <3> QED
      BY <3>1, <3>2
  <2> QED
    BY <2>2, <2>3, <2>4 DEF CountsInv, NotRoot, AllCounted, Apps, Groups, LosesCounts, App, Nameless, Root
<1> QED
  BY <1>1, <1>3, <1>4, <1>5 DEF Next, Step, Quietly

(* At first nothing is counted.                                            *)
LEMMA CountsBegin ==
  ASSUME Init
  PROVE  CountsInv /\ Stages
<1>1. cli \in DOMAIN Interfaces /\ todo = <<>>
      /\ apps = [a \in DOMAIN Interfaces[cli].apps |-> FreshApp(App(a))]
  BY DEF Init
<1>2. \A b \in Apps : apps[b].parsed = 0
  BY <1>1 DEF FreshApp, Apps
<1>3. ~ (0 > 0)
  OBVIOUS
<1> QED
  BY <1>1, <1>2, <1>3 DEF CountsInv, AllCounted, Stages

(* The complaints of _process_requirements, unfolded once: what an app     *)
(* lists is asked with f.                                                  *)
WithinAt(f, b, sub) ==
  IF apps[sub].disabled \/ LetOff(b, sub) THEN "none"
  ELSE IF (apps[sub].parsed > 0 \/ Nameless(sub)) /\ f[sub] # "none" THEN f[sub]
  ELSE IF App(sub).required /\ count_all(sub) = 0 THEN "RequiredError"
  ELSE "none"

ListedAt(f, b) ==
  LET own == App(b).options
      subs == App(b).subs
  IN  [i \in DOMAIN own |-> OptionRequirements(own[i])]
      \o << Numbers(b) >> \o [i \in DOMAIN subs |-> WithinAt(f, b, subs[i])]

RequirementsAt(f, b) ==
  IF Excluded(b) THEN IF count_all(b) > 0 THEN "ExcludesError" ELSE "none"
  ELSE IF Lacking(b) THEN IF count_all(b) > 0 THEN "RequiresError" ELSE "none"
  ELSE FirstError(ListedAt(f, b))

AreRequirements(f) == f = [b \in Apps |-> RequirementsAt(f, b)]
Demands == {"none", "RequiredError", "RequiresError", "ExcludesError"}

(* Requirements is a function that solves this equation.                   *)
LEMMA RequirementsIs == \A a : Requirements(a) = (CHOOSE f : AreRequirements(f))[a]
BY DEF Requirements, AreRequirements, RequirementsAt, ListedAt, WithinAt

(* The options and the apps that an app lists, in order.                   *)
LEMMA ListedHere ==
  ASSUME cli \in DOMAIN Interfaces, NEW b \in Apps
  PROVE  /\ IsSequence(App(b).options) /\ IsSequence(App(b).subs)
         /\ Range(App(b).subs) = SubsIn(Definition, b) /\ Range(App(b).subs) \subseteq Apps
         /\ Range(App(b).options) = OptionsIn(Definition, b)
<1>1. IsTree(Definition) /\ b \in DOMAIN Definition.apps /\ App(b) = Definition.apps[b]
  BY Now
<1> QED
  BY <1>1, TreeIs, Now DEF SubsIn, OptionsIn

(* A function on the places of a sequence is one.                          *)
LEMMA MadeOver ==
  ASSUME NEW s, IsSequence(s), NEW h, h = [i \in DOMAIN s |-> h[i]]
  PROVE  IsSequence(h) /\ Len(h) = Len(s) /\ DOMAIN h = DOMAIN s
<1>1. Len(s) \in Nat /\ DOMAIN s = 1 .. Len(s)
  BY SequenceFacts
<1>2. h = [i \in 1 .. Len(s) |-> h[i]]
  BY <1>1
<1>3. IsSequence([i \in 1 .. Len(s) |-> h[i]]) /\ Len([i \in 1 .. Len(s) |-> h[i]]) = Len(s)
  BY <1>1, Made
<1> QED
  BY <1>1, <1>2, <1>3

(* The errors that are listed: of the options, the numbers and the apps.   *)
LEMMA ListedErrors ==
  ASSUME cli \in DOMAIN Interfaces, NEW b \in Apps, NEW f
  PROVE  /\ IsSequence(ListedAt(f, b))
         /\ Range(ListedAt(f, b)) = {OptionRequirements(o) : o \in Range(App(b).options)} \cup {Numbers(b)}
                                    \cup {WithinAt(f, b, sub) : sub \in Range(App(b).subs)}
<1> DEFINE own == App(b).options
           subs == App(b).subs
           first == [i \in DOMAIN own |-> OptionRequirements(own[i])]
           last == [i \in DOMAIN subs |-> WithinAt(f, b, subs[i])]
           one == << Numbers(b) >>
<1>1. IsSequence(own) /\ IsSequence(subs)
  BY ListedHere
<1>2. Range(first) = {OptionRequirements(o) : o \in Range(own)}
  BY DEF Range
<1>3. Range(last) = {WithinAt(f, b, sub) : sub \in Range(subs)}
  BY DEF Range
<1>4. IsSequence(one) /\ Range(one) = {Numbers(b)}
  BY OneFacts
<1>5. first = [i \in DOMAIN own |-> first[i]] /\ last = [i \in DOMAIN subs |-> last[i]]
  OBVIOUS
<1>6. ListedAt(f, b) = first \o one \o last
  BY DEF ListedAt
<1> HIDE DEF first, last, one
<1>7. IsSequence(first) /\ IsSequence(last)
  BY <1>1, <1>5, MadeOver
<1>8. IsSequence(first \o one) /\ Range(first \o one) = Range(first) \cup Range(one)
  BY <1>4, <1>7, ConcatFacts
<1> DEFINE front == first \o one
<1>9. IsSequence(front) /\ ListedAt(f, b) = front \o last
  BY <1>6, <1>8
<1> HIDE DEF front
<1>10. IsSequence(front \o last) /\ Range(front \o last) = Range(front) \cup Range(last)
  BY <1>7, <1>9, ConcatFacts
<1> QED
  BY <1>2, <1>3, <1>4, <1>8, <1>9, <1>10 DEF front

(* The first of some errors, by what they are.                             *)
LEMMA FirstOfErrors ==
  ASSUME NEW errors, IsSequence(errors)
  PROVE  /\ FirstError(errors) = "none" => \A e \in Range(errors) : e = "none"
         /\ FirstError(errors) \in Range(errors) \cup {"none"}
BY FirstErrorFacts, SequenceFacts DEF Range

(* One unfolding gives a demand, if those of the apps listed do.           *)
LEMMA RequirementsType ==
  ASSUME cli \in DOMAIN Interfaces, NEW b \in Apps, NEW f,
         \A c \in SubsIn(Definition, b) : f[c] \in Demands
  PROVE  RequirementsAt(f, b) \in Demands
<1>1. \A o : OptionRequirements(o) \in Demands
  BY DEF OptionRequirements, Demands
<1>2. Numbers(b) \in Demands
  BY DEF Numbers, Demands
<1>3. \A sub \in Range(App(b).subs) : WithinAt(f, b, sub) \in Demands
  BY ListedHere DEF WithinAt, Demands
<1>4. Range(ListedAt(f, b)) \subseteq Demands /\ IsSequence(ListedAt(f, b))
  BY <1>1, <1>2, <1>3, ListedErrors
<1>5. FirstError(ListedAt(f, b)) \in Demands
  BY <1>4, FirstOfErrors DEF Demands
<1> QED
  BY <1>5 DEF RequirementsAt, Demands

(* One unfolding depends on the apps listed only.                          *)
LEMMA RequirementsAgree ==
  ASSUME cli \in DOMAIN Interfaces, NEW b \in Apps, NEW f, NEW g,
         \A c \in SubsIn(Definition, b) : f[c] = g[c]
  PROVE  RequirementsAt(f, b) = RequirementsAt(g, b)
<1> DEFINE subs == App(b).subs
<1>1. \A i \in DOMAIN subs : subs[i] \in SubsIn(Definition, b)
  BY ListedHere DEF Range
<1>2. \A i \in DOMAIN subs : WithinAt(f, b, subs[i]) = WithinAt(g, b, subs[i])
  BY <1>1 DEF WithinAt
<1>3. [i \in DOMAIN subs |-> WithinAt(f, b, subs[i])] = [i \in DOMAIN subs |-> WithinAt(g, b, subs[i])]
  BY <1>2
<1>4. ListedAt(f, b) = ListedAt(g, b)
  BY <1>3 DEF ListedAt
<1> QED
  BY <1>4 DEF RequirementsAt

RequirementsOf == [b \in Apps |-> Requirements(b)]

(* The equation of Requirements.                                           *)
LEMMA RequirementsUnfold ==
  ASSUME cli \in DOMAIN Interfaces
  PROVE  \A a \in Apps : Requirements(a) = RequirementsAt(RequirementsOf, a)
<1> DEFINE D == Apps
           V == [b \in Apps |-> Demands]
           Dep == SubsOf
           Fam == Family(D, V)
           Body(f, b) == RequirementsAt(f, b)
           F == [f \in Fam |-> [b \in D |-> Body(f, b)]]
<1>1. /\ IsFiniteSet(D) /\ Grounded(D, Dep) /\ \A b \in D : Dep[b] \subseteq D
      /\ \A b \in D : V[b] # {}
  BY Now, NowGrounded DEF Demands
<1>2. ASSUME NEW f, NEW b \in D, \A c \in Dep[b] : f[c] \in V[c]
      PROVE  Body(f, b) \in V[b]
  BY <1>1, <1>2, RequirementsType DEF SubsOf
<1>3. ASSUME NEW f, NEW g, NEW b \in D, \A c \in Dep[b] : f[c] = g[c]
      PROVE  Body(f, b) = Body(g, b)
  BY <1>3, RequirementsAgree DEF SubsOf
<1> HIDE DEF Body, V, Dep, D
<1>4. F \in [Fam -> Fam]
  <2> SUFFICES ASSUME NEW f \in Fam PROVE [b \in D |-> Body(f, b)] \in Fam
    OBVIOUS
  <2>1. \A b \in D : Body(f, b) \in V[b]
    BY <1>1, <1>2 DEF Family
  <2> QED
    BY <2>1 DEF Family
<1>5. \A f, g \in Fam : \A b \in D : (\A c \in Dep[b] \cap D : f[c] = g[c]) => F[f][b] = F[g][b]
  BY <1>1, <1>3
<1> HIDE DEF F
<1>6. PICK f \in Fam : F[f] = f
  <2>1. Unfolding(D, Dep, V, F)
    BY <1>1, <1>4, <1>5 DEF Unfolding
  <2> QED
    BY <2>1, RecursionDefined
<1>7. AreRequirements(f)
  BY <1>6 DEF AreRequirements, Body, F, D
<1> DEFINE g == CHOOSE h : AreRequirements(h)
<1>8. AreRequirements(g)
  BY <1>7
<1> HIDE DEF g
<1>9. \A b \in D : g[b] = Body(g, b)
  BY <1>8 DEF AreRequirements, Body, D
<1>10. \A b \in Apps : Requirements(b) = g[b]
  BY RequirementsIs DEF g
<1>11. g = RequirementsOf
  BY <1>8, <1>10 DEF AreRequirements, RequirementsOf
<1>12. \A b \in Apps : Requirements(b) = RequirementsAt(g, b)
  BY <1>9, <1>10 DEF Body, D
<1> QED
  BY <1>11, <1>12

(* _process_extras, unfolded once.                                         *)
LeftAt(b) == \E i \in DOMAIN apps[b].missing : apps[b].missing[i][1] # "POSITIONAL_MARK"
ExtrasAt(f, b) ==
  LET subs == App(b).subs IN
  IF ~App(b).allow_extras /\ ~PrefixCommand(b) /\ LeftAt(b) THEN "ExtrasError"
  ELSE FirstError([i \in DOMAIN subs |-> IF apps[subs[i]].parsed > 0 THEN f[subs[i]] ELSE "none"])

AreExtras(f) == f = [b \in Apps |-> ExtrasAt(f, b)]

(* Extras is a function that solves this equation.                         *)
LEMMA ExtrasIs == \A a : Extras(a) = (CHOOSE f : AreExtras(f))[a]
BY DEF Extras, AreExtras, ExtrasAt, LeftAt

(* The errors of the apps listed.                                          *)
LEMMA ExtrasListed ==
  ASSUME cli \in DOMAIN Interfaces, NEW b \in Apps, NEW f
  PROVE  LET subs == App(b).subs
             errors == [i \in DOMAIN subs |-> IF apps[subs[i]].parsed > 0 THEN f[subs[i]] ELSE "none"]
         IN  /\ IsSequence(errors)
             /\ Range(errors) = {IF apps[sub].parsed > 0 THEN f[sub] ELSE "none" : sub \in Range(subs)}
<1> DEFINE subs == App(b).subs
           errors == [i \in DOMAIN subs |-> IF apps[subs[i]].parsed > 0 THEN f[subs[i]] ELSE "none"]
<1>1. IsSequence(subs) /\ errors = [i \in DOMAIN subs |-> errors[i]]
  BY ListedHere
<1>2. Range(errors) = {IF apps[sub].parsed > 0 THEN f[sub] ELSE "none" : sub \in Range(subs)}
  BY DEF Range
<1> HIDE DEF errors
<1>3. IsSequence(errors)
  BY <1>1, MadeOver
<1> QED
  BY <1>2, <1>3 DEF errors

(* One unfolding complains or does not, if those of the apps listed do.    *)
LEMMA ExtrasType ==
  ASSUME cli \in DOMAIN Interfaces, NEW b \in Apps, NEW f,
         \A c \in SubsIn(Definition, b) : f[c] \in {"none", "ExtrasError"}
  PROVE  ExtrasAt(f, b) \in {"none", "ExtrasError"}
<1> DEFINE subs == App(b).subs
           errors == [i \in DOMAIN subs |-> IF apps[subs[i]].parsed > 0 THEN f[subs[i]] ELSE "none"]
<1>1. IsSequence(errors) /\ Range(errors) \subseteq {"none", "ExtrasError"}
  BY ExtrasListed, ListedHere
<1>2. ExtrasAt(f, b) = IF ~App(b).allow_extras /\ ~PrefixCommand(b) /\ LeftAt(b) THEN "ExtrasError"
                       ELSE FirstError(errors)
  BY DEF ExtrasAt
<1> HIDE DEF errors
<1>3. FirstError(errors) \in {"none", "ExtrasError"}
  BY <1>1, FirstOfErrors
<1> QED
  BY <1>2, <1>3

(* One unfolding depends on the apps listed only.                          *)
LEMMA ExtrasAgree ==
  ASSUME cli \in DOMAIN Interfaces, NEW b \in Apps, NEW f, NEW g,
         \A c \in SubsIn(Definition, b) : f[c] = g[c]
  PROVE  ExtrasAt(f, b) = ExtrasAt(g, b)
<1> DEFINE subs == App(b).subs
<1>1. \A i \in DOMAIN subs : subs[i] \in SubsIn(Definition, b)
  BY ListedHere DEF Range
<1>2. [i \in DOMAIN subs |-> IF apps[subs[i]].parsed > 0 THEN f[subs[i]] ELSE "none"]
        = [i \in DOMAIN subs |-> IF apps[subs[i]].parsed > 0 THEN g[subs[i]] ELSE "none"]
  BY <1>1
<1> QED
  BY <1>2 DEF ExtrasAt

ExtrasOf == [b \in Apps |-> Extras(b)]

(* The equation of Extras.                                                 *)
LEMMA ExtrasUnfold ==
  ASSUME cli \in DOMAIN Interfaces
  PROVE  \A a \in Apps : Extras(a) = ExtrasAt(ExtrasOf, a)
<1> DEFINE D == Apps
           V == [b \in Apps |-> {"none", "ExtrasError"}]
           Dep == SubsOf
           Fam == Family(D, V)
           Body(f, b) == ExtrasAt(f, b)
           F == [f \in Fam |-> [b \in D |-> Body(f, b)]]
<1>1. /\ IsFiniteSet(D) /\ Grounded(D, Dep) /\ \A b \in D : Dep[b] \subseteq D
      /\ \A b \in D : V[b] # {}
  BY Now, NowGrounded
<1>2. ASSUME NEW f, NEW b \in D, \A c \in Dep[b] : f[c] \in V[c]
      PROVE  Body(f, b) \in V[b]
  BY <1>1, <1>2, ExtrasType DEF SubsOf
<1>3. ASSUME NEW f, NEW g, NEW b \in D, \A c \in Dep[b] : f[c] = g[c]
      PROVE  Body(f, b) = Body(g, b)
  BY <1>3, ExtrasAgree DEF SubsOf
<1> HIDE DEF Body, V, Dep, D
<1>4. F \in [Fam -> Fam]
  <2> SUFFICES ASSUME NEW f \in Fam PROVE [b \in D |-> Body(f, b)] \in Fam
    OBVIOUS
  <2>1. \A b \in D : Body(f, b) \in V[b]
    BY <1>1, <1>2 DEF Family
  <2> QED
    BY <2>1 DEF Family
<1>5. \A f, g \in Fam : \A b \in D : (\A c \in Dep[b] \cap D : f[c] = g[c]) => F[f][b] = F[g][b]
  BY <1>1, <1>3
<1> HIDE DEF F
<1>6. PICK f \in Fam : F[f] = f
  <2>1. Unfolding(D, Dep, V, F)
    BY <1>1, <1>4, <1>5 DEF Unfolding
  <2> QED
    BY <2>1, RecursionDefined
<1>7. AreExtras(f)
  BY <1>6 DEF AreExtras, Body, F, D
<1> DEFINE g == CHOOSE h : AreExtras(h)
<1>8. AreExtras(g)
  BY <1>7
<1> HIDE DEF g
<1>9. \A b \in D : g[b] = Body(g, b)
  BY <1>8 DEF AreExtras, Body, D
<1>10. \A b \in Apps : Extras(b) = g[b]
  BY ExtrasIs DEF g
<1>11. g = ExtrasOf
  BY <1>8, <1>10 DEF AreExtras, ExtrasOf
<1>12. \A b \in Apps : Extras(b) = ExtrasAt(g, b)
  BY <1>9, <1>10 DEF Body, D
<1> QED
  BY <1>11, <1>12

(* Answers, unfolded once: who is asked is asked by its parent.            *)
AnswersAt(f, b) ==
  \/ IsRoot(b) /\ (count_all(b) > 0 \/ (~Excluded(b) /\ ~Lacking(b)))
  \/ /\ ~IsRoot(b) /\ ~apps[b].disabled /\ count_all(b) > 0
     /\ (Nameless(b) \/ apps[b].parsed > 0) /\ f[App(b).parent]

AreAnswers(f) == f = [b \in Apps |-> AnswersAt(f, b)]
ParentsOf == [b \in Apps |-> {App(b).parent} \ {NoApp}]

(* Answers is a function that solves this equation.                        *)
LEMMA AnswersIs == \A a : Answers(a) = (CHOOSE f : AreAnswers(f))[a]
BY DEF Answers, AreAnswers, AnswersAt

(* A recursion from an app to its parent ends, at the root.                *)
LEMMA ToTheRoot ==
  ASSUME cli \in DOMAIN Interfaces
  PROVE  Grounded(Apps, ParentsOf) /\ \A b \in Apps : ParentsOf[b] \subseteq Apps
<1>1. ASSUME NEW S \in SUBSET Apps, S # {}
      PROVE  \E a \in S : ParentsOf[a] \cap S = {}
  <2>1. PICK a \in S : \A b \in S : a \notin Under(Definition, b)
    BY <1>1, Now, Topmost
  <2>2. a # Root => a \in Under(Definition, App(a).parent)
    BY RootIs
  <2>3. a = Root => App(a).parent = NoApp
    BY RootIs DEF IsRoot
  <2> QED
    BY <2>1, <2>2, <2>3 DEF ParentsOf
<1>2. \A b \in Apps : ParentsOf[b] \subseteq Apps
  BY RootIs DEF ParentsOf, IsRoot
<1> QED
  BY <1>1, <1>2 DEF Grounded

(* One unfolding says yes or no.                                           *)
LEMMA AnswersType ==
  ASSUME NEW b, NEW f
  PROVE  AnswersAt(f, b) \in BOOLEAN
BY DEF AnswersAt

(* One unfolding depends on the parent only.                               *)
LEMMA AnswersAgree ==
  ASSUME cli \in DOMAIN Interfaces, NEW b \in Apps, NEW f, NEW g, \A c \in ParentsOf[b] : f[c] = g[c]
  PROVE  AnswersAt(f, b) = AnswersAt(g, b)
<1>1. CASE IsRoot(b)
  BY <1>1 DEF AnswersAt
<1>2. CASE ~IsRoot(b)
  <2>1. App(b).parent \in ParentsOf[b]
    BY <1>2 DEF ParentsOf, IsRoot
  <2>2. f[App(b).parent] = g[App(b).parent]
    BY <2>1
  <2> QED
    BY <2>2 DEF AnswersAt
<1> QED
  BY <1>1, <1>2

(* Who answers is asked by its parent, up to the root.                     *)
LEMMA AnswersUnfold ==
  ASSUME cli \in DOMAIN Interfaces
  PROVE  \A b \in Apps :
           /\ IsRoot(b) /\ Answers(b) => count_all(b) > 0 \/ (~Excluded(b) /\ ~Lacking(b))
           /\ ~IsRoot(b) /\ Answers(b) =>
                /\ ~apps[b].disabled /\ count_all(b) > 0 /\ (Nameless(b) \/ apps[b].parsed > 0)
                /\ Answers(App(b).parent)
<1> DEFINE D == Apps
           V == [b \in Apps |-> BOOLEAN]
           Dep == ParentsOf
           Fam == Family(D, V)
           Body(f, b) == AnswersAt(f, b)
           F == [f \in Fam |-> [b \in D |-> Body(f, b)]]
<1>1. /\ IsFiniteSet(D) /\ Grounded(D, Dep) /\ \A b \in D : Dep[b] \subseteq D
      /\ \A b \in D : V[b] # {}
  BY Now, ToTheRoot
<1>2. ASSUME NEW f, NEW b \in D, \A c \in Dep[b] : f[c] \in V[c]
      PROVE  Body(f, b) \in V[b]
  BY <1>1, <1>2, AnswersType
<1>3. ASSUME NEW f, NEW g, NEW b \in D, \A c \in Dep[b] : f[c] = g[c]
      PROVE  Body(f, b) = Body(g, b)
  BY <1>3, AnswersAgree
<1> HIDE DEF Body, V, Dep, D
<1>4. F \in [Fam -> Fam]
  <2> SUFFICES ASSUME NEW f \in Fam PROVE [b \in D |-> Body(f, b)] \in Fam
    OBVIOUS
  <2>1. \A b \in D : Body(f, b) \in V[b]
    BY <1>1, <1>2 DEF Family
  <2> QED
    BY <2>1 DEF Family
<1>5. \A f, g \in Fam : \A b \in D : (\A c \in Dep[b] \cap D : f[c] = g[c]) => F[f][b] = F[g][b]
  BY <1>1, <1>3
<1> HIDE DEF F
<1>6. PICK f \in Fam : F[f] = f
  <2>1. Unfolding(D, Dep, V, F)
    BY <1>1, <1>4, <1>5 DEF Unfolding
  <2> QED
    BY <2>1, RecursionDefined
<1>7. AreAnswers(f)
  BY <1>6 DEF AreAnswers, Body, F, D
<1> DEFINE g == CHOOSE h : AreAnswers(h)
<1>8. AreAnswers(g)
  BY <1>7
<1> HIDE DEF g
<1>9. \A b \in D : g[b] = Body(g, b)
  BY <1>8 DEF AreAnswers, Body, D
<1>10. \A b \in Apps : Answers(b) = g[b]
  BY AnswersIs DEF g
<1>11. \A b \in Apps : g[b] = AnswersAt(g, b)
  BY <1>9 DEF Body, D
<1>12. ASSUME NEW b \in Apps
       PROVE  /\ IsRoot(b) /\ Answers(b) => count_all(b) > 0 \/ (~Excluded(b) /\ ~Lacking(b))
              /\ ~IsRoot(b) /\ Answers(b) =>
                   /\ ~apps[b].disabled /\ count_all(b) > 0 /\ (Nameless(b) \/ apps[b].parsed > 0)
                   /\ Answers(App(b).parent)
  <2>1. ~IsRoot(b) => App(b).parent \in Apps
    BY RootIs
  <2>2. Answers(b) => AnswersAt(g, b)
    BY <1>10, <1>11
  <2>3. ~IsRoot(b) /\ g[App(b).parent] => Answers(App(b).parent)
    BY <1>10, <2>1
  <2> QED
    BY <2>2, <2>3 DEF AnswersAt
<1> QED
  BY <1>12

(* An app of which _process_requirements had nothing to say, and what it   *)
(* was asked for the apps it lists.                                        *)
Fulfilled(b) ==
  /\ ~Excluded(b) /\ ~Lacking(b)
  /\ \A o \in Range(App(b).options) : OptionRequirements(o) = "none"
  /\ Numbers(b) = "none"
  /\ \A sub \in Range(App(b).subs) : ~apps[sub].disabled /\ ~LetOff(b, sub) =>
       /\ apps[sub].parsed > 0 \/ Nameless(sub) => Requirements(sub) = "none"
       /\ ~(App(sub).required /\ count_all(sub) = 0)

(* Nothing is said of an app only if it has what it needs, or was not used. *)
LEMMA NothingSaid ==
  ASSUME cli \in DOMAIN Interfaces, NEW b \in Apps, Requirements(b) = "none",
         count_all(b) > 0 \/ (~Excluded(b) /\ ~Lacking(b))
  PROVE  Fulfilled(b)
<1>1. RequirementsAt(RequirementsOf, b) = "none"
  BY RequirementsUnfold
<1>2. ~Excluded(b) /\ ~Lacking(b) /\ FirstError(ListedAt(RequirementsOf, b)) = "none"
  BY <1>1 DEF RequirementsAt
<1>3. \A e \in Range(ListedAt(RequirementsOf, b)) : e = "none"
  BY <1>2, ListedErrors, FirstOfErrors
<1>4. /\ \A o \in Range(App(b).options) : OptionRequirements(o) = "none"
      /\ Numbers(b) = "none"
      /\ \A sub \in Range(App(b).subs) : WithinAt(RequirementsOf, b, sub) = "none"
  BY <1>3, ListedErrors
<1>5. ASSUME NEW sub \in Range(App(b).subs), ~apps[sub].disabled, ~LetOff(b, sub)
      PROVE  /\ apps[sub].parsed > 0 \/ Nameless(sub) => Requirements(sub) = "none"
             /\ ~(App(sub).required /\ count_all(sub) = 0)
  <2>1. WithinAt(RequirementsOf, b, sub) = "none" /\ sub \in Apps
    BY <1>4, ListedHere
  <2>2. RequirementsOf[sub] = Requirements(sub)
    BY <2>1 DEF RequirementsOf
  <2> QED
    BY <1>5, <2>1, <2>2 DEF WithinAt
<1> QED
  BY <1>2, <1>4, <1>5 DEF Fulfilled

(* When nothing is said of the root, nothing is said of those who answer.  *)
LEMMA AllFulfilled ==
  ASSUME cli \in DOMAIN Interfaces, Requirements(Root) = "none"
  PROVE  \A a \in Apps : Answers(a) => Fulfilled(a)
<1> DEFINE P == {a \in Apps : Answers(a) => Fulfilled(a)}
<1>1. ASSUME NEW a \in Apps, ParentsOf[a] \cap Apps \subseteq P
      PROVE  a \in P
  <2> SUFFICES ASSUME Answers(a) PROVE Fulfilled(a)
    OBVIOUS
  <2>1. CASE IsRoot(a)
    <3>1. count_all(a) > 0 \/ (~Excluded(a) /\ ~Lacking(a))
      BY <2>1, AnswersUnfold
    <3>2. a = Root
      BY <2>1, RootIs
    <3> QED
      BY <3>1, <3>2, NothingSaid
  <2>2. CASE ~IsRoot(a)
    <3> DEFINE p == App(a).parent
    <3>1. /\ ~apps[a].disabled /\ count_all(a) > 0 /\ (Nameless(a) \/ apps[a].parsed > 0)
          /\ Answers(p)
      BY <2>2, AnswersUnfold
    <3>2. p \in Apps /\ a \in Range(App(p).subs)
      <4>1. a # Root
        BY <2>2, RootIs
      <4>2. p \in Apps /\ a \in SubsIn(Definition, p)
        BY <4>1, Now, ParentIs
      <4> QED
        BY <4>2, ListedHere
    <3>3. p \in ParentsOf[a]
      BY <2>2 DEF ParentsOf, IsRoot
    <3>4. Fulfilled(p)
      BY <1>1, <3>1, <3>2, <3>3
    <3>5. ~LetOff(p, a)
      <4>1. ~ (0 > 0)
        OBVIOUS
      <4> QED
        BY <3>1, <4>1 DEF LetOff
    <3>6. Requirements(a) = "none"
      BY <3>1, <3>2, <3>4, <3>5 DEF Fulfilled
    <3> QED
      BY <3>1, <3>6, NothingSaid
  <2> QED
    BY <2>1, <2>2
<1>2. Apps \subseteq P
  <2> HIDE DEF P
  <2> QED
    BY <1>1, ToTheRoot, GroundedInduction
<1> QED
  BY <1>2

(* When the root is counted and none of its arguments is left over, none   *)
(* of those of the apps that answer is, but for those that are overlooked. *)
LEMMA NoneLeft ==
  ASSUME cli \in DOMAIN Interfaces, Extras(Root) = "none", apps[Root].parsed > 0, AllCounted(apps, {})
  PROVE  \A a \in Apps : Answers(a) => Overlooked(a) \/ (apps[a].parsed > 0 /\ Extras(a) = "none")
<1> DEFINE Fine(a) == Overlooked(a) \/ (apps[a].parsed > 0 /\ Extras(a) = "none")
           P == {a \in Apps : Answers(a) => Fine(a)}
<1>1. ASSUME NEW a \in Apps, ParentsOf[a] \cap Apps \subseteq P
      PROVE  a \in P
  <2> SUFFICES ASSUME Answers(a) PROVE Fine(a)
    OBVIOUS
  <2>1. CASE IsRoot(a)
    BY <2>1, RootIs
  <2>2. CASE ~IsRoot(a)
    <3> DEFINE p == App(a).parent
    <3>1. (Nameless(a) \/ apps[a].parsed > 0) /\ Answers(p)
      BY <2>2, AnswersUnfold
    <3>2. p \in Apps /\ a \in Range(App(p).subs) /\ a \in SubsIn(Definition, p)
      <4>1. a # Root
        BY <2>2, RootIs
      <4>2. p \in Apps /\ a \in SubsIn(Definition, p)
        BY <4>1, Now, ParentIs
      <4> QED
        BY <4>2, ListedHere
    <3>3. p \in ParentsOf[a]
      BY <2>2 DEF ParentsOf, IsRoot
    <3>4. Fine(p)
      BY <1>1, <3>1, <3>2, <3>3
    <3>5. CASE Overlooked(p)
      <4>1. PICK b \in Apps : LosesCounts(b) /\ \E g \in Groups(b) : p \in Below(g)
        BY <3>5 DEF Overlooked
      <4>2. PICK g \in Groups(b) : p \in Below(g)
        BY <4>1
      <4>3. g \in Apps
        BY GroupsAre
      <4>4. a \in Below(g)
        <5>1. Below(g) = {g} \cup Under(Definition, g) /\ g \in DOMAIN Definition.apps /\ IsTree(Definition)
          BY <4>3, BelowFacts, Now
        <5>2. Closed(Definition, Under(Definition, g)) /\ SubsIn(Definition, g) \subseteq Under(Definition, g)
          BY <5>1, UnderFacts
        <5> QED
          BY <3>2, <4>2, <5>1, <5>2 DEF Closed
      <4> QED
        BY <4>1, <4>4 DEF Overlooked
    <3>6. CASE ~Overlooked(p)
      <4>1. apps[p].parsed > 0 /\ Extras(p) = "none"
        BY <3>4, <3>6
      <4>2. CASE Nameless(a) /\ LosesCounts(p)
        <5>1. a \in Groups(p) /\ a \in Below(a)
          BY <3>2, <4>2, BelowFacts DEF Groups
        <5> QED
          BY <3>2, <4>2, <5>1 DEF Overlooked
      <4>3. CASE ~(Nameless(a) /\ LosesCounts(p))
        <5>1. apps[a].parsed > 0
          <6>1. CASE Nameless(a)
            <7>1. a \in Groups(p) /\ ~LosesCounts(p)
              BY <3>2, <4>3, <6>1 DEF Groups
            <7> QED
              BY <3>2, <4>1, <7>1 DEF AllCounted
          <6>2. CASE ~Nameless(a)
            BY <3>1, <6>2
          <6> QED
            BY <6>1, <6>2
        <5>2. ExtrasAt(ExtrasOf, p) = "none"
          BY <3>2, <4>1, ExtrasUnfold
        <5>3. (IF apps[a].parsed > 0 THEN ExtrasOf[a] ELSE "none") = "none"
          <6> DEFINE subs == App(p).subs
                     errors == [i \in DOMAIN subs |-> IF apps[subs[i]].parsed > 0 THEN ExtrasOf[subs[i]] ELSE "none"]
          <6>1. /\ IsSequence(errors)
                /\ Range(errors) = {IF apps[sub].parsed > 0 THEN ExtrasOf[sub] ELSE "none" : sub \in Range(subs)}
            BY <3>2, ExtrasListed
          <6>2. FirstError(errors) = "none"
            BY <5>2 DEF ExtrasAt
          <6> HIDE DEF errors
          <6>3. \A e \in Range(errors) : e = "none"
            BY <6>1, <6>2, FirstOfErrors
          <6> QED
            BY <3>2, <6>1, <6>3
        <5> QED
          BY <5>1, <5>3 DEF ExtrasOf
      <4> QED
        BY <4>2, <4>3
    <3> QED
      BY <3>5, <3>6
  <2> QED
    BY <2>1, <2>2
<1>2. Apps \subseteq P
  <2> HIDE DEF P
  <2> QED
    BY <1>1, ToTheRoot, GroundedInduction
<1> QED
  BY <1>2

(* The options and groups of an app are finitely many.                     *)
LEMMA UsedIsNumber ==
  ASSUME cli \in DOMAIN Interfaces, NEW a \in Apps
  PROVE  UsedOptions(a) \in Nat
<1> DEFINE own == App(a).options
           used == {o \in Range(own) : count(options[o]) # 0}
           groups == {g \in Groups(a) : ~apps[g].disabled /\ count_all(g) > 0}
<1>1. IsFiniteSet(Range(own))
  <2>1. IsSequence(own)
    BY ListedHere
  <2>2. Len(own) \in Nat /\ DOMAIN own = 1 .. Len(own)
    BY <2>1, SequenceFacts
  <2>3. IsFiniteSet(1 .. Len(own))
    BY <2>2, FS_Interval
  <2> DEFINE h == [i \in 1 .. Len(own) |-> own[i]]
  <2>4. h \in Surjection(1 .. Len(own), Range(own))
    BY <2>2 DEF Surjection, Range
  <2> QED
    BY <2>3, <2>4, FS_Surjection
<1>2. IsFiniteSet(used)
  BY <1>1, FS_Subset
<1>3. IsFiniteSet(groups)
  <2>1. groups \subseteq Apps /\ IsFiniteSet(Apps)
    BY GroupsAre, Now
  <2> QED
    BY <2>1, FS_Subset
<1>4. Cardinality(used) \in Nat /\ Cardinality(groups) \in Nat
  BY <1>2, <1>3, FS_CardinalityType
<1>5. UsedOptions(a) = Cardinality(used) + Cardinality(groups)
  BY DEF UsedOptions
<1> HIDE DEF used, groups
<1> QED
  BY <1>4, <1>5

(* What the numbers say, and each option.                                  *)
LEMMA FulfilledMeans ==
  ASSUME TypeInv, NEW a \in Apps, Fulfilled(a)
  PROVE  /\ ~Excluded(a) /\ ~Lacking(a)
         /\ \A o \in Range(App(a).options) : HasWhatItNeeds(o)
         /\ Len(apps[a].parsed_subcommands) >= App(a).min_subs
         /\ UsedOptions(a) >= App(a).min_options
         /\ App(a).max_options > 0 => UsedOptions(a) <= App(a).max_options
         /\ \A sub \in Range(App(a).subs) :
              App(sub).required /\ ~apps[sub].disabled => count_all(sub) # 0
<1>1. cli \in DOMAIN Interfaces /\ AppsAre(Definition, apps)
  BY DEF TypeInv
<1>2. /\ ~Excluded(a) /\ ~Lacking(a)
      /\ \A o \in Range(App(a).options) : OptionRequirements(o) = "none"
      /\ Numbers(a) = "none"
  BY DEF Fulfilled
<1>3. ASSUME NEW o \in Range(App(a).options)
      PROVE  HasWhatItNeeds(o)
  <2>1. OptionRequirements(o) = "none"
    BY <1>2
  <2>2. /\ ~(Opt(o).required /\ count(options[o]) = 0)
        /\ ~(count(options[o]) > 0 /\ \E p \in Opt(o).needs : count(options[p]) = 0)
        /\ ~(count(options[o]) > 0 /\ \E p \in Opt(o).excludes : count(options[p]) # 0)
    BY <2>1 DEF OptionRequirements
  <2> QED
    BY <2>2 DEF HasWhatItNeeds
<1> DEFINE n == Len(apps[a].parsed_subcommands)
           u == UsedOptions(a)
           s == App(a).min_subs
           l == App(a).min_options
           m == App(a).max_options
<1>4. n \in Nat /\ u \in Nat /\ s \in Nat /\ l \in Nat /\ m \in Nat
  <2>1. IsAppState(Definition, a, apps[a])
    BY <1>1, Now DEF AppsAre
  <2>2. apps[a].parsed_subcommands \in Seq(Under(Definition, a))
    BY <2>1, AppHas
  <2>3. n \in Nat
    BY <2>2
  <2>4. s \in Nat /\ l \in Nat /\ m \in Nat
    BY <1>1, Now DEF IsTree
  <2> QED
    BY <1>1, <2>3, <2>4, UsedIsNumber
<1>5. ~(s > n) /\ ~(l > u) /\ ~(m > 0 /\ m < u)
  BY <1>2 DEF Numbers
<1> HIDE DEF n, u, s, l, m
<1>6. n >= s /\ u >= l /\ (m > 0 => u <= m)
  BY <1>4, <1>5
<1>7. ASSUME NEW sub \in Range(App(a).subs), App(sub).required, ~apps[sub].disabled
      PROVE  count_all(sub) # 0
  <2>1. ~LetOff(a, sub)
    BY <1>7 DEF LetOff
  <2> QED
    BY <1>7, <2>1 DEF Fulfilled
<1> QED
  BY <1>2, <1>3, <1>6, <1>7 DEF n, u, s, l, m

(* A parse that succeeds leaves the requirements met.                      *)
LEMMA JudgedMeets ==
  ASSUME TypeInv, Stages, CountsInv
  PROVE  RequirementsMet
<1> SUFFICES ASSUME Success, NEW a \in DOMAIN apps, Answers(a)
             PROVE  /\ ~Excluded(a) /\ ~Lacking(a)
                    /\ \A o \in Range(App(a).options) : HasWhatItNeeds(o)
                    /\ Len(apps[a].parsed_subcommands) >= App(a).min_subs
                    /\ UsedOptions(a) >= App(a).min_options
                    /\ App(a).max_options > 0 => UsedOptions(a) <= App(a).max_options
                    /\ \A sub \in Range(App(a).subs) :
                         App(sub).required /\ ~apps[sub].disabled => count_all(sub) # 0
                    /\ Overlooked(a) \/ App(a).allow_extras \/ PrefixCommand(a)
                       \/ \A i \in DOMAIN apps[a].missing : apps[a].missing[i][1] = "POSITIONAL_MARK"
  BY DEF RequirementsMet
<1>1. /\ cli \in DOMAIN Interfaces /\ DOMAIN apps = Apps
      /\ Requirements(Root) = "none" /\ Extras(Root) = "none"
      /\ error = "none" /\ todo # <<>>
  BY SuccessIsJudged, Now DEF TypeInv, AppsAre, Success, Done, Doing
<1>2. apps[Root].parsed > 0 /\ AllCounted(apps, {})
  BY <1>1 DEF CountsInv, NotRoot
<1>3. Fulfilled(a)
  BY <1>1, AllFulfilled
<1>4. Overlooked(a) \/ App(a).allow_extras \/ PrefixCommand(a)
      \/ \A i \in DOMAIN apps[a].missing : apps[a].missing[i][1] = "POSITIONAL_MARK"
  <2>1. Overlooked(a) \/ Extras(a) = "none"
    BY <1>1, <1>2, NoneLeft
  <2>2. Extras(a) = "none" => App(a).allow_extras \/ PrefixCommand(a) \/ ~LeftAt(a)
    BY <1>1, ExtrasUnfold DEF ExtrasAt
  <2> QED
    BY <2>1, <2>2 DEF LeftAt
<1> QED
  BY <1>1, <1>3, <1>4, FulfilledMeans

(***************************************************************************)
(* Whatever is on the line, in the files and in the environment, a parse   *)
(* succeeds only if each app and group in use was given all that it, its   *)
(* options and its subcommands require, as many as they must be and        *)
(* nothing that excludes something else, and left no argument over         *)
(* (_process_requirements, _process_extras).  Of the apps the root's own   *)
(* question asks: nothing that would change the answer happens after it.   *)
(***************************************************************************)
THEOREM RequirementsAreMet == Spec => []RequirementsMet
<1>1. Init => TypeInv /\ Parsing /\ Stages /\ CountsInv
  BY InitIsTyped, CountsBegin
<1>2. TypeInv /\ Parsing /\ Stages /\ CountsInv /\ [Next]_vars => (TypeInv /\ Parsing /\ Stages /\ CountsInv)'
  BY StepIsTyped, StagesFollow, CountsFollow
<1>3. TypeInv /\ Stages /\ CountsInv => RequirementsMet
  BY JudgedMeets
<1> QED
  BY <1>1, <1>2, <1>3, PTL DEF Spec

-----------------------------------------------------------------------------
(***************************************************************************)
(* The elements of sequences that are put after one another are theirs:    *)
(* the function that FlattenSeq recurs with, unfolded once, is defined on  *)
(* the places of the sequences.                                            *)
(***************************************************************************)
JoinedAt(seqs, f, i) == IF i = 1 THEN seqs[i] ELSE f[i - 1] \o seqs[i]
AreJoined(seqs, f) == f = [i \in 1 .. Len(seqs) |-> JoinedAt(seqs, f, i)]
PlaceBefore(n) == [i \in 1 .. n |-> {i - 1}]

(* That is how FlattenSeq is defined.                                      *)
LEMMA JoinedIs ==
  \A seqs : FlattenSeq(seqs) = IF Len(seqs) = 0 THEN seqs
                               ELSE (CHOOSE f : AreJoined(seqs, f))[Len(seqs)]
BY DEF FlattenSeq, AreJoined, JoinedAt

(* A recursion over the places of a sequence ends.                         *)
LEMMA PlacesGrounded ==
  ASSUME NEW n \in Nat
  PROVE  IsFiniteSet(1 .. n) /\ Grounded(1 .. n, PlaceBefore(n))
<1>1. IsFiniteSet(1 .. n)
  BY FS_Interval
<1>2. ASSUME NEW S \in SUBSET (1 .. n), S # {} PROVE \E i \in S : PlaceBefore(n)[i] \cap S = {}
  <2>1. S \in SUBSET Nat
    OBVIOUS
  <2>2. PICK i \in S : \A j \in S : i <= j
    BY <1>2, <2>1, LeastNumber
  <2>3. i \in 1 .. n /\ i - 1 \notin S
    BY <2>2
  <2> QED
    BY <2>3 DEF PlaceBefore
<1> QED
  BY <1>1, <1>2 DEF Grounded

(* There is such a function, and all it gives are sequences over S.        *)
LEMMA JoinedDefined ==
  ASSUME NEW S, NEW seqs, IsSequence(seqs), Range(seqs) \subseteq Seq(S)
  PROVE  \E f : AreJoined(seqs, f)
<1> DEFINE n == Len(seqs)
           D == 1 .. n
           V == [i \in D |-> Seq(S)]
           Dep == PlaceBefore(n)
           Fam == Family(D, V)
           F == [f \in Fam |-> [i \in D |-> JoinedAt(seqs, f, i)]]
<1>1. n \in Nat /\ \A i \in D : seqs[i] \in Seq(S)
  BY SequenceFacts
<1>2. \A f \in Fam : \A i \in D : f[i] \in Seq(S)
  BY DEF Family
<1>3. \A i \in D : i # 1 => i - 1 \in D
  BY <1>1
<1>4. \A f \in Fam : \A i \in D : JoinedAt(seqs, f, i) \in Seq(S)
  <2> SUFFICES ASSUME NEW f \in Fam, NEW i \in D, i # 1 PROVE f[i - 1] \o seqs[i] \in Seq(S)
    BY <1>1 DEF JoinedAt
  <2>1. f[i - 1] \in Seq(S) /\ seqs[i] \in Seq(S)
    BY <1>1, <1>2, <1>3
  <2> HIDE DEF V, Fam
  <2> QED
    BY <2>1
<1>5. \A f, g \in Fam : \A i \in D : (\A j \in Dep[i] \cap D : f[j] = g[j]) => F[f][i] = F[g][i]
  <2> SUFFICES ASSUME NEW f \in Fam, NEW g \in Fam, NEW i \in D, \A j \in Dep[i] \cap D : f[j] = g[j]
               PROVE  JoinedAt(seqs, f, i) = JoinedAt(seqs, g, i)
    OBVIOUS
  <2>1. i # 1 => i - 1 \in Dep[i] \cap D
    BY <1>3 DEF PlaceBefore
  <2> QED
    BY <2>1 DEF JoinedAt
<1>6. F \in [Fam -> Fam]
  <2> SUFFICES ASSUME NEW f \in Fam PROVE [i \in D |-> JoinedAt(seqs, f, i)] \in Fam
    OBVIOUS
  <2> QED
    BY <1>4 DEF Family
<1>7. \A i \in D : V[i] # {}
  <2>1. <<>> \in Seq(S)
    OBVIOUS
  <2> QED
    BY <2>1
<1>8. IsFiniteSet(D) /\ Grounded(D, Dep)
  BY <1>1, PlacesGrounded
<1> HIDE DEF F, V, D, Dep
<1>9. Unfolding(D, Dep, V, F)
  BY <1>5, <1>6, <1>7, <1>8 DEF Unfolding
<1>10. PICK f \in Family(D, V) : F[f] = f
  BY <1>9, RecursionDefined
<1>11. AreJoined(seqs, f)
  BY <1>10 DEF F, AreJoined, D
<1> QED
  BY <1>11

(* Sequences over S that are put after one another are one over S.         *)
LEMMA FlattenType ==
  ASSUME NEW S, NEW seqs, IsSequence(seqs), Range(seqs) \subseteq Seq(S)
  PROVE  FlattenSeq(seqs) \in Seq(S)
<1> DEFINE n == Len(seqs)
           f == CHOOSE g : AreJoined(seqs, g)
           P == {i \in Nat : i \in 1 .. n => f[i] \in Seq(S)}
<1>1. n \in Nat /\ DOMAIN seqs = 1 .. n /\ \A i \in 1 .. n : seqs[i] \in Seq(S)
  BY SequenceFacts
<1>2. AreJoined(seqs, f)
  BY JoinedDefined
<1>3. FlattenSeq(seqs) = IF n = 0 THEN seqs ELSE f[n]
  BY JoinedIs
<1> HIDE DEF f
<1>4. \A i \in 1 .. n : f[i] = IF i = 1 THEN seqs[i] ELSE f[i - 1] \o seqs[i]
  BY <1>2 DEF AreJoined, JoinedAt
<1>5. 0 \in P
  OBVIOUS
<1>6. ASSUME NEW i \in Nat, i \in P PROVE i + 1 \in P
  <2> SUFFICES ASSUME i + 1 \in 1 .. n PROVE f[i + 1] \in Seq(S)
    OBVIOUS
  <2>1. CASE i = 0
    BY <1>1, <1>4, <2>1
  <2>2. CASE i # 0
    <3>1. i \in 1 .. n /\ i + 1 # 1 /\ (i + 1) - 1 = i
      BY <1>1, <2>2
    <3>2. f[i] \in Seq(S) /\ seqs[i + 1] \in Seq(S)
      BY <1>1, <1>6, <3>1
    <3>3. f[i + 1] = f[i] \o seqs[i + 1]
      BY <1>4, <3>1
    <3> HIDE DEF P
    <3> QED
      BY <3>2, <3>3
  <2> QED
    BY <2>1, <2>2
<1>7. Nat \subseteq P
  <2> HIDE DEF P
  <2> QED
    BY <1>5, <1>6, Induction
<1>8. CASE n = 0
  <2>1. seqs \in Seq(Range(seqs)) /\ seqs = <<>>
    BY <1>1, <1>8 DEF IsSequence
  <2> QED
    BY <1>3, <1>8, <2>1
<1>9. CASE n # 0
  <2>1. n \in P /\ n \in 1 .. n
    BY <1>1, <1>7, <1>9
  <2> QED
    BY <1>3, <1>9, <2>1
<1> QED
  BY <1>8, <1>9

(* The function that Callbacks recurs with, unfolded once: the callbacks   *)
(* of the subcommands used, of the groups used, and the app's own.         *)
OfSubcommands(f, b) ==
  LET seq == apps[b].parsed_subcommands
  IN  [i \in DOMAIN seq |-> IF App(seq[i]).parent = b THEN f[seq[i]] ELSE <<>>]
OfGroups(f, b) ==
  LET seq == App(b).subs
  IN  [i \in DOMAIN seq |-> IF Nameless(seq[i]) /\ count_all(seq[i]) > 0 THEN f[seq[i]] ELSE <<>>]
OwnFinal(b, suppress) ==
  IF /\ App(b).final /\ apps[b].parsed > 0 /\ ~suppress
     /\ ~Nameless(b) \/ count_all(b) > 0 \/ IsRoot(b)
    THEN << <<b, "final">> >> ELSE <<>>
FinalAt(f, b, suppress) ==
  FlattenSeq(OfSubcommands(f, b)) \o FlattenSeq(OfGroups(f, b)) \o OwnFinal(b, suppress)
AreFinal(f, suppress) == f = [b \in Apps |-> FinalAt(f, b, suppress)]

(* The final callbacks that may be called of an app and what is below it.  *)
FinalsOf(b, suppress) ==
  {<<c, "final">> : c \in {e \in Below(b) : apps[e].parsed > 0 /\ ~suppress}}

(* Callbacks is a function that solves this equation.                      *)
LEMMA CallbacksAre ==
  \A a, suppress :
    Callbacks(a, suppress) =
      (IF App(a).parse_complete THEN << <<a, "parse_complete">> >> ELSE <<>>)
      \o (CHOOSE f : AreFinal(f, suppress))[a]
BY DEF Callbacks, AreFinal, FinalAt, OfSubcommands, OfGroups, OwnFinal

(* Who is below a listed app is below its lister.                          *)
LEMMA FinalsBelow ==
  ASSUME cli \in DOMAIN Interfaces, NEW b \in Apps, NEW c \in SubsIn(Definition, b), NEW suppress
  PROVE  Seq(FinalsOf(c, suppress)) \subseteq Seq(FinalsOf(b, suppress))
<1>1. c \in Apps /\ Below(c) \subseteq Below(b)
  BY BelowFacts, UnderSub, TreeIs, Now
<1>2. FinalsOf(c, suppress) \subseteq FinalsOf(b, suppress)
  BY <1>1 DEF FinalsOf
<1> HIDE DEF FinalsOf
<1> QED
  BY <1>2

(* The elements that a sequence of apps of b stands for.                   *)
LEMMA PassedOn ==
  ASSUME cli \in DOMAIN Interfaces, NEW b \in Apps, NEW f, NEW suppress,
         NEW s, IsSequence(s), NEW h, h = [i \in DOMAIN s |-> h[i]],
         \A c \in SubsIn(Definition, b) : f[c] \in Seq(FinalsOf(c, suppress)),
         \A i \in DOMAIN s : h[i] = <<>> \/ (s[i] \in SubsIn(Definition, b) /\ h[i] = f[s[i]])
  PROVE  FlattenSeq(h) \in Seq(FinalsOf(b, suppress))
<1>1. IsSequence(h) /\ DOMAIN h = DOMAIN s
  BY MadeOver
<1>2. ASSUME NEW i \in DOMAIN s PROVE h[i] \in Seq(FinalsOf(b, suppress))
  <2>1. CASE h[i] = <<>>
    BY <2>1
  <2>2. CASE s[i] \in SubsIn(Definition, b) /\ h[i] = f[s[i]]
    BY <2>2, FinalsBelow
  <2> QED
    BY <2>1, <2>2
<1>3. Range(h) \subseteq Seq(FinalsOf(b, suppress))
  BY <1>1, <1>2 DEF Range
<1> QED
  BY <1>1, <1>3, FlattenType

(* One unfolding gives final callbacks of what is below, if those of the   *)
(* apps listed do.                                                         *)
LEMMA FinalType ==
  ASSUME cli \in DOMAIN Interfaces, AppsAre(Definition, apps), NEW b \in Apps, NEW f,
         NEW suppress \in BOOLEAN,
         \A c \in SubsIn(Definition, b) : f[c] \in Seq(FinalsOf(c, suppress))
  PROVE  FinalAt(f, b, suppress) \in Seq(FinalsOf(b, suppress))
<1> DEFINE T == Seq(FinalsOf(b, suppress))
<1>1. FlattenSeq(OfSubcommands(f, b)) \in T
  <2> DEFINE s == apps[b].parsed_subcommands
             h == OfSubcommands(f, b)
  <2>1. IsSequence(s) /\ Range(s) \subseteq Apps
    <3>1. IsAppState(Definition, b, apps[b])
      BY Now DEF AppsAre
    <3>2. s \in Seq(Under(Definition, b)) /\ Under(Definition, b) \subseteq Apps
      BY <3>1, AppHas, UnderFacts, Now
    <3> QED
      BY <3>2, SequencesAre
  <2>2. h = [i \in DOMAIN s |-> h[i]]
    BY DEF OfSubcommands
  <2>3. ASSUME NEW i \in DOMAIN s
        PROVE  h[i] = <<>> \/ (s[i] \in SubsIn(Definition, b) /\ h[i] = f[s[i]])
    <3>1. s[i] \in Apps
      BY <2>1 DEF Range
    <3>2. App(s[i]).parent = b => s[i] \in SubsIn(Definition, b)
      BY <3>1, ParentIs, Now
    <3>3. h[i] = IF App(s[i]).parent = b THEN f[s[i]] ELSE <<>>
      BY DEF OfSubcommands
    <3> QED
      BY <3>2, <3>3
  <2> HIDE DEF h, s
  <2> QED
    BY <2>1, <2>2, <2>3, PassedOn DEF h
<1>2. FlattenSeq(OfGroups(f, b)) \in T
  <2> DEFINE s == App(b).subs
             h == OfGroups(f, b)
  <2>1. IsSequence(s) /\ Range(s) = SubsIn(Definition, b)
    BY ListedHere
  <2>2. h = [i \in DOMAIN s |-> h[i]]
    BY DEF OfGroups
  <2>3. ASSUME NEW i \in DOMAIN s
        PROVE  h[i] = <<>> \/ (s[i] \in SubsIn(Definition, b) /\ h[i] = f[s[i]])
    BY <2>1 DEF OfGroups, Range
  <2> HIDE DEF h, s
  <2> QED
    BY <2>1, <2>2, <2>3, PassedOn DEF h
<1>3. OwnFinal(b, suppress) \in T
  <2>1. CASE apps[b].parsed > 0 /\ ~suppress
    <3>1. <<b, "final">> \in FinalsOf(b, suppress)
      BY <2>1, BelowFacts DEF FinalsOf
    <3> HIDE DEF FinalsOf
    <3> QED
      BY <3>1 DEF OwnFinal
  <2>2. CASE ~(apps[b].parsed > 0 /\ ~suppress)
    BY <2>2 DEF OwnFinal
  <2> QED
    BY <2>1, <2>2
<1> HIDE DEF T
<1>4. \A x, y, z \in T : x \o y \o z \in T
  BY DEF T
<1> QED
  BY <1>1, <1>2, <1>3, <1>4 DEF T, FinalAt

(* One unfolding depends on the apps listed only.                          *)
LEMMA FinalAgree ==
  ASSUME cli \in DOMAIN Interfaces, AppsAre(Definition, apps), NEW b \in Apps, NEW f, NEW g,
         NEW suppress, \A c \in SubsIn(Definition, b) : f[c] = g[c]
  PROVE  FinalAt(f, b, suppress) = FinalAt(g, b, suppress)
<1>1. OfSubcommands(f, b) = OfSubcommands(g, b)
  <2> DEFINE s == apps[b].parsed_subcommands
  <2>1. IsSequence(s) /\ Range(s) \subseteq Apps
    <3>1. IsAppState(Definition, b, apps[b])
      BY Now DEF AppsAre
    <3>2. s \in Seq(Under(Definition, b)) /\ Under(Definition, b) \subseteq Apps
      BY <3>1, AppHas, UnderFacts, Now
    <3> QED
      BY <3>2, SequencesAre
  <2>2. \A i \in DOMAIN s : App(s[i]).parent = b => f[s[i]] = g[s[i]]
    BY <2>1, ParentIs, Now DEF Range
  <2> QED
    BY <2>2 DEF OfSubcommands
<1>2. OfGroups(f, b) = OfGroups(g, b)
  BY ListedHere DEF OfGroups, Range
<1> QED
  BY <1>1, <1>2 DEF FinalAt

(* What the callbacks of an app are: parse_complete's, and final ones of   *)
(* apps that were used, below it.                                          *)
LEMMA CallbacksType ==
  ASSUME cli \in DOMAIN Interfaces, AppsAre(Definition, apps), NEW a \in Apps, NEW suppress \in BOOLEAN
  PROVE  Callbacks(a, suppress) \in Seq({<<a, "parse_complete">>} \cup FinalsOf(a, suppress))
<1> DEFINE D == Apps
           V == [b \in Apps |-> Seq(FinalsOf(b, suppress))]
           Dep == SubsOf
           Fam == Family(D, V)
           Body(f, b) == FinalAt(f, b, suppress)
           F == [f \in Fam |-> [b \in D |-> Body(f, b)]]
<1>1. /\ IsFiniteSet(D) /\ Grounded(D, Dep) /\ \A b \in D : Dep[b] \subseteq D
  BY Now, NowGrounded
<1>2. \A b \in D : V[b] # {}
  <2>1. \A b \in D : <<>> \in Seq(FinalsOf(b, suppress))
    <3> HIDE DEF FinalsOf
    <3> QED
      OBVIOUS
  <2> QED
    BY <2>1
<1>3. ASSUME NEW f, NEW b \in D, \A c \in Dep[b] : f[c] \in V[c]
      PROVE  Body(f, b) \in V[b]
  <2>1. \A c \in SubsIn(Definition, b) : f[c] \in Seq(FinalsOf(c, suppress))
    BY <1>1, <1>3 DEF SubsOf
  <2> QED
    BY <2>1, FinalType
<1>4. ASSUME NEW f, NEW g, NEW b \in D, \A c \in Dep[b] : f[c] = g[c]
      PROVE  Body(f, b) = Body(g, b)
  BY <1>4, FinalAgree DEF SubsOf
<1> HIDE DEF Body, V, Dep, D
<1>5. F \in [Fam -> Fam]
  <2> SUFFICES ASSUME NEW f \in Fam PROVE [b \in D |-> Body(f, b)] \in Fam
    OBVIOUS
  <2>1. \A b \in D : Body(f, b) \in V[b]
    BY <1>1, <1>3 DEF Family
  <2> QED
    BY <2>1 DEF Family
<1>6. \A f, g \in Fam : \A b \in D : (\A c \in Dep[b] \cap D : f[c] = g[c]) => F[f][b] = F[g][b]
  BY <1>1, <1>4
<1> HIDE DEF F
<1>7. PICK f \in Fam : F[f] = f
  <2>1. Unfolding(D, Dep, V, F)
    BY <1>1, <1>2, <1>5, <1>6 DEF Unfolding
  <2> QED
    BY <2>1, RecursionDefined
<1>8. AreFinal(f, suppress)
  BY <1>7 DEF AreFinal, Body, F, D
<1> DEFINE g == CHOOSE h : AreFinal(h, suppress)
<1>9. AreFinal(g, suppress)
  BY <1>8
<1>10. Callbacks(a, suppress) =
         (IF App(a).parse_complete THEN << <<a, "parse_complete">> >> ELSE <<>>) \o g[a]
  BY CallbacksAre
<1> HIDE DEF g
<1>11. \A b \in D : g[b] = Body(g, b)
  BY <1>9 DEF AreFinal, Body, D
<1> DEFINE P == {b \in D : g[b] \in V[b]}
<1>12. D \subseteq P
  <2>1. \A b \in D : Dep[b] \cap D \subseteq P => b \in P
    BY <1>1, <1>3, <1>11
  <2> HIDE DEF P
  <2> QED
    BY <1>1, <2>1, GroundedInduction
<1>13. g[a] \in Seq(FinalsOf(a, suppress))
  BY <1>12 DEF V, D
<1> DEFINE T == {<<a, "parse_complete">>} \cup FinalsOf(a, suppress)
<1>14. <<a, "parse_complete">> \in T /\ FinalsOf(a, suppress) \subseteq T
  OBVIOUS
<1> HIDE DEF T, FinalsOf
<1>15. << <<a, "parse_complete">> >> \in Seq(T) /\ <<>> \in Seq(T) /\ g[a] \in Seq(T)
  BY <1>13, <1>14
<1>16. Callbacks(a, suppress) \in Seq(T)
  BY <1>10, <1>15
<1> QED
  BY <1>16 DEF T

(***************************************************************************)
(* What a step writes down as called.  But for the callbacks of an app, it *)
(* is no more than that an app begins to parse.                            *)
(***************************************************************************)
CallsMoved == called' = called \/ \E a : called' = Append(called, <<a, "pre_parse">>)

(* _parse of an app begins.                                                *)
LEMMA TriggerCalls ==
  ASSUME NEW a, NEW as, Enter(a, as) \/ Trigger(a, as)
  PROVE  CallsMoved
<1>1. ASSUME NEW bs, Trigger(a, bs) PROVE CallsMoved
  BY <1>1 DEF Trigger, CallsMoved
<1> QED
  BY <1>1 DEF Enter

(* A place for an argument that names nothing.                             *)
LEMMA PositionalCalls ==
  ASSUME NEW place \in Places, NEW mode, positional(place, mode), place.kind # "leave"
  PROVE  CallsMoved
<1>1. place.kind \in {"option", "subcommand", "missing", "extras"}
  BY DEF Places
<1>2. CASE place.kind = "option"
  BY <1>2 DEF positional, CallsMoved
<1>3. CASE place.kind = "subcommand"
  <2>1. Enter(place.app, apps)
    BY <1>3 DEF positional
  <2> QED
    BY <2>1, TriggerCalls
<1>4. CASE place.kind = "missing"
  BY <1>4 DEF positional, CallsMoved, effects
<1>5. CASE place.kind = "extras"
  BY <1>5 DEF positional, CallsMoved, effects
<1> QED
  BY <1>1, <1>2, <1>3, <1>4, <1>5

(* The line, argument by argument.                                         *)
LEMMA ParseSingleCalls ==
  ASSUME TypeInv, ParseSingle
  PROVE  CallsMoved
<1>1. CASE PositionalMark
  BY <1>1 DEF PositionalMark, effects, CallsMoved
<1>2. CASE SubcommandTerminator
  BY <1>2 DEF SubcommandTerminator, effects, CallsMoved
<1>3. CASE ParsePositional
  <2>1. Here \in Places
    BY <1>3, HereIs DEF ParsePositional
  <2>2. UNCHANGED called \/ (Here.kind # "leave" /\ \E mode : positional(Here, mode))
    BY <1>3 DEF ParsePositional, effects
  <2> QED
    BY <2>1, <2>2, PositionalCalls DEF CallsMoved
<1>4. CASE RequiredPositional
  <2>1. Here \in Places
    BY <1>4, HereIs DEF RequiredPositional
  <2>2. UNCHANGED called \/ (Here.kind # "leave" /\ positional(Here, Head(todo)))
    BY <1>4 DEF RequiredPositional, effects
  <2> QED
    BY <2>1, <2>2, PositionalCalls DEF CallsMoved
<1>5. CASE Subcommand
  <2>1. UNCHANGED called \/ \E a, as : Enter(a, as)
    BY <1>5 DEF Subcommand
  <2> QED
    BY <2>1, TriggerCalls DEF CallsMoved
<1>6. CASE ParseArg
  BY <1>6 DEF ParseArg, CallsMoved
<1> QED
  BY <1>1, <1>2, <1>3, <1>4, <1>5, <1>6 DEF ParseSingle

(* Every step of a parse but the callbacks of the apps.                    *)
LEMMA QuietlyCalls ==
  ASSUME TypeInv, Quietly, ~RunCallbacks
  PROVE  CallsMoved
<1>1. CASE Process
  BY <1>1 DEF Process, process_env, process_callbacks, ProcessGroup, ProcessSubcommand,
       OptionCallback, process_help_flags, process_requirements, process_extras, effects, CallsMoved
<1>2. CASE EndOfLine
  BY <1>2 DEF EndOfLine, effects, CallsMoved
<1>3. CASE TouchGroup
  <2>1. UNCHANGED called \/ Trigger(Of, apps)
    BY <1>3 DEF TouchGroup
  <2> QED
    BY <2>1, TriggerCalls DEF CallsMoved
<1>4. CASE Passed
  <2>1. \E as : Trigger(Of, as)
    BY <1>4 DEF Passed
  <2> QED
    BY <2>1, TriggerCalls
<1>5. CASE Configure
  <2>1. CASE OpenSection
    <3>1. UNCHANGED called \/ \E as : Enter(TheApp, as)
      BY <2>1 DEF OpenSection
    <3> QED
      BY <3>1, TriggerCalls DEF CallsMoved
  <2>2. CASE ~OpenSection
    BY <1>5, <2>2 DEF Configure, process_config_file, ReadFile, FileRead, FileError, ItemsDone, UnknownItem,
       CloseSection, OptionItem, effects, CallsMoved
  <2> QED
    BY <2>1, <2>2
<1> QED
  BY <1>1, <1>2, <1>3, <1>4, <1>5, ParseSingleCalls DEF Quietly

(* A parse begins with nothing called but for its root's first callback.   *)
LEMMA ParseCalls ==
  ASSUME parse
  PROVE  called' = <<>> \/ called' = << <<Root, "pre_parse">> >>
BY DEF parse

(***************************************************************************)
(* The final callbacks among the calls that wait for the end of the parse. *)
(* Once there is one of them, nothing is left to do but to return.         *)
(***************************************************************************)
LateIn(calls) == {c \in Range(calls) : c[2] = "final" /\ ~CalledAtOnce(c[1])}
FinalsInv ==
  /\ IsSequence(called)
  /\ LateIn(called) # {} =>
       /\ error = "none" /\ (todo = <<>> \/ todo = <<Return>>)
       /\ Requirements(Root) = "none" /\ Extras(Root) = "none"
       /\ \A c \in LateIn(called) : apps[c[1]].parsed > 0

(* What is called at once is a matter of the definition.                   *)
LEMMA SameAtOnce ==
  ASSUME UNCHANGED cli
  PROVE  \A s : LateIn(s)' = LateIn(s')
BY DEF LateIn, CalledAtOnce, RunsAtOnce, App, Nameless, Root, Apps, Below

(* An app that calls its final callbacks before the end calls them, and    *)
(* those of what is below it, at once.                                     *)
LEMMA HastyAtOnce ==
  ASSUME cli \in DOMAIN Interfaces, NEW a \in Apps, Hasty(Definition, a), NEW b \in Below(a)
  PROVE  CalledAtOnce(b)
<1>1. RunsAtOnce(a)
  BY Now DEF Hasty, RunsAtOnce, Nameless
<1> QED
  BY <1>1 DEF CalledAtOnce

(* A callback that an app begins with is not a final one.                  *)
LEMMA CallsNotLate ==
  ASSUME IsSequence(called), UNCHANGED cli, CallsMoved
  PROVE  IsSequence(called') /\ LateIn(called)' = LateIn(called)
<1>1. \A s : LateIn(s)' = LateIn(s')
  BY SameAtOnce
<1>2. CASE called' = called
  BY <1>1, <1>2
<1>3. ASSUME NEW a, called' = Append(called, <<a, "pre_parse">>)
      PROVE  IsSequence(called') /\ LateIn(called') = LateIn(called)
  <2> DEFINE e == <<a, "pre_parse">>
  <2>1. e[2] # "final"
    OBVIOUS
  <2> HIDE DEF e
  <2>2. called' = called \o <<e>>
    <3> DEFINE S == Range(called) \cup {e}
    <3>1. called \in Seq(Range(called)) /\ Range(called) \subseteq S /\ e \in S
      BY DEF IsSequence
    <3>2. called' = Append(called, e)
      BY <1>3 DEF e
    <3> HIDE DEF S
    <3>3. called \in Seq(S)
      BY <3>1
    <3> QED
      BY <3>1, <3>2, <3>3
  <2>3. IsSequence(called') /\ Range(called') = Range(called) \cup {e}
    BY <2>2, ConcatFacts, OneFacts
  <2> QED
    BY <2>1, <2>3 DEF LateIn
<1> QED
  BY <1>1, <1>2, <1>3 DEF CallsMoved

(* The callbacks of an app: nothing late if it calls them at once, or must *)
(* hold the final ones back.                                               *)
LEMMA CallbacksCalls ==
  ASSUME TypeInv, IsSequence(called), LateIn(called) = {}, RunCallbacks
  PROVE  /\ IsSequence(called') /\ UNCHANGED <<cli, apps, options>> /\ Of \in Apps
         /\ \A c \in LateIn(called') : apps[c[1]].parsed > 0
         /\ LateIn(called') # {} => Head(todo).do = "run_final" /\ ~Hasty(Definition, Of)
<1> DEFINE suppress == Doing("run")
           T == {<<Of, "parse_complete">>} \cup FinalsOf(Of, suppress)
           more == Callbacks(Of, suppress)
<1>1. /\ cli \in DOMAIN Interfaces /\ AppsAre(Definition, apps) /\ todo # <<>>
      /\ Head(todo).do \in {"run", "run_final"} /\ suppress = (Head(todo).do = "run")
      /\ UNCHANGED <<cli, apps, options>> /\ called' = called \o more
  BY DEF RunCallbacks, Doing, TypeInv, Quiet, input, state
<1>2. Of \in Apps /\ suppress \in BOOLEAN
  BY <1>1, TheTask
<1>3. more \in Seq(T)
  BY <1>1, <1>2, CallbacksType
<1> HIDE DEF more, T, suppress
<1>4. IsSequence(more) /\ Range(more) \subseteq T
  BY <1>3, SequencesAre
<1>5. IsSequence(called') /\ Range(called') = Range(called) \cup Range(more)
  BY <1>1, <1>4, ConcatFacts
<1>6. LateIn(called') \subseteq FinalsOf(Of, suppress)
  <2> SUFFICES ASSUME NEW c \in LateIn(called') PROVE c \in FinalsOf(Of, suppress)
    OBVIOUS
  <2>1. c \in Range(called) \cup T /\ c[2] = "final" /\ ~CalledAtOnce(c[1])
    BY <1>4, <1>5 DEF LateIn
  <2>2. c \notin Range(called)
    BY <2>1 DEF LateIn
  <2> QED
    BY <2>1, <2>2 DEF T
<1>7. ASSUME NEW c \in LateIn(called')
      PROVE  apps[c[1]].parsed > 0 /\ ~suppress /\ c[1] \in Below(Of)
  BY <1>6 DEF FinalsOf
<1>8. LateIn(called') # {} => ~Hasty(Definition, Of)
  BY <1>1, <1>2, <1>7, HastyAtOnce DEF LateIn
<1> QED
  BY <1>1, <1>2, <1>5, <1>7, <1>8

(* An app that is not hasty calls its final callbacks after the root was   *)
(* judged.                                                                 *)
LEMMA FinalAfterJudgement ==
  ASSUME TypeInv, Stages, RunCallbacks, Head(todo).do = "run_final", ~Hasty(Definition, Of)
  PROVE  JudgedOnce /\ todo = <<Task("run_final", Root), Return>>
<1>1. todo # <<>> /\ IsSequence(todo) /\ EndsEarly(Definition, Head(todo))
  BY DEF RunCallbacks, Doing, TypeInv, TasksAre, EndsEarly, Of
<1>2. \A e : IsSequence(e) /\ EndsWith(Definition, todo, e) => todo = e
  BY <1>1, EndsHead DEF Inner
<1>3. ~Unjudged
  BY <1>1, <1>2, LastTasksAre, FileStackIs, FrameStackIs
     DEF Unjudged, AtRootFrame, BeforeRequirements, BeforeFileError, IsRootFrame, Frames, Task
<1>4. ~HasThrown
  BY DEF HasThrown, Return, Task
<1>5. JudgedOnce
  BY <1>1, <1>3, <1>4 DEF Stages
<1> QED
  BY <1>5 DEF JudgedOnce, Judged, Return, Task

(* The callbacks of an app leave the invariant.                            *)
LEMMA CallbacksFinals ==
  ASSUME TypeInv, Stages, IsSequence(called), LateIn(called) = {}, RunCallbacks
  PROVE  FinalsInv'
<1>1. /\ IsSequence(called') /\ UNCHANGED <<cli, apps, options>>
      /\ \A c \in LateIn(called') : apps[c[1]].parsed > 0
      /\ LateIn(called') # {} => Head(todo).do = "run_final" /\ ~Hasty(Definition, Of)
  BY CallbacksCalls
<1>2. /\ LateIn(called)' = LateIn(called') /\ Return' = Return
      /\ Requirements(Root)' = Requirements(Root) /\ Extras(Root)' = Extras(Root)
  BY <1>1, SameAtOnce, SameJudgements
<1>3. ASSUME LateIn(called') # {}
      PROVE  /\ error' = "none" /\ todo' = <<Return>>
             /\ Requirements(Root) = "none" /\ Extras(Root) = "none"
  <2>1. JudgedOnce /\ todo = <<Task("run_final", Root), Return>>
    BY <1>1, <1>3, FinalAfterJudgement
  <2>2. Tail(todo) = <<Return>>
    BY <2>1
  <2>3. todo' = <<>> \o <<Return>> /\ error' = error
    BY <2>2 DEF RunCallbacks, Then
  <2>4. todo' = <<Return>>
    BY <2>3, NothingFirst, OneFacts
  <2>5. Requirements(Root) = "none" /\ Extras(Root) = "none" /\ error = "none"
    BY <2>1 DEF JudgedOnce, Judged, Task
  <2> QED
    BY <2>3, <2>4, <2>5
<1> QED
  BY <1>1, <1>2, <1>3 DEF FinalsInv

(* Every step leaves the invariant.                                        *)
LEMMA FinalsFollow ==
  ASSUME TypeInv, Stages, FinalsInv, [Next]_vars
  PROVE  FinalsInv'
<1>1. CASE parse
  <2>1. UNCHANGED cli
    BY <1>1 DEF parse
  <2>2. LateIn(called)' = LateIn(called')
    BY <2>1, SameAtOnce
  <2>3. IsSequence(called') /\ Range(called') \subseteq {<<Root, "pre_parse">>}
    BY <1>1, ParseCalls, OneFacts
  <2>4. LateIn(called') = {}
    BY <2>3 DEF LateIn
  <2> QED
    BY <2>2, <2>3, <2>4 DEF FinalsInv
<1>2. CASE Returned \/ UNCHANGED vars
  <2>1. /\ UNCHANGED <<cli, apps, options, error, called>>
        /\ todo' = todo \/ todo' = <<>>
    BY <1>2 DEF Returned, vars, parsing, state, input, effects
  <2>2. /\ LateIn(called)' = LateIn(called) /\ Return' = Return
        /\ Requirements(Root)' = Requirements(Root) /\ Extras(Root)' = Extras(Root)
    BY <2>1, SameAtOnce, SameJudgements
  <2> QED
    BY <2>1, <2>2 DEF FinalsInv
<1>3. CASE Quietly
  <2>1. todo # <<>> /\ Head(todo).do # "return"
    <3>1. Judges => Head(todo).do # "return"
      BY JudgeTask
    <3> QED
      BY <1>3, <3>1, SameParse, NotJudging
  <2>2. IsSequence(called) /\ LateIn(called) = {}
    BY <2>1 DEF FinalsInv, Return, Task
  <2>3. CASE RunCallbacks
    BY <2>2, <2>3, CallbacksFinals
  <2>4. CASE ~RunCallbacks
    <3>1. CallsMoved /\ UNCHANGED cli
      BY <1>3, <2>4, QuietlyCalls, QuietlyMoves, JudgesKeep DEF Kept
    <3> QED
      BY <2>2, <3>1, CallsNotLate DEF FinalsInv
  <2> QED
    BY <2>3, <2>4
<1> QED
  BY <1>1, <1>2, <1>3 DEF Next, Step, Quietly

(***************************************************************************)
(* Whatever is given, the final callback of an app that waits for the end  *)
(* of the parse is called only when nothing can be complained of any more  *)
(* and for an app that was used, and then no exception follows             *)
(* (run_callback at the end of _process).                                  *)
(***************************************************************************)
THEOREM FinalCallbacksAreLast == Spec => []FinalCallbacksLast
<1>1. Init => TypeInv /\ Parsing /\ Stages /\ FinalsInv
  <2>1. Init => IsSequence(called) /\ LateIn(called) = {}
    BY EmptyFacts DEF Init, LateIn
  <2> QED
    BY <2>1, InitIsTyped, CountsBegin DEF FinalsInv
<1>2. TypeInv /\ Parsing /\ Stages /\ FinalsInv /\ [Next]_vars => (TypeInv /\ Parsing /\ Stages /\ FinalsInv)'
  BY StepIsTyped, StagesFollow, FinalsFollow
<1>3. FinalsInv => FinalCallbacksLast
  <2> SUFFICES ASSUME FinalsInv, NEW i \in DOMAIN called, FinalCall(i), ~CalledAtOnce(called[i][1])
               PROVE  /\ error = "none" /\ apps[called[i][1]].parsed > 0
                      /\ Requirements(Root) = "none" /\ Extras(Root) = "none"
    BY DEF FinalCallbacksLast
  <2>1. called[i] \in LateIn(called)
    BY DEF LateIn, Range, FinalCall
  <2> QED
    BY <2>1 DEF FinalsInv
<1> QED
  BY <1>1, <1>2, <1>3, PTL DEF Spec

-----------------------------------------------------------------------------
(***************************************************************************)
(* What the variables bound to options hold.  An option whose callback was *)
(* called has handed it what it shows, unless an exception ends the parse; *)
(* one whose callback still has to be called will be: the callbacks of the *)
(* root are ahead and what changes options comes before them, or a task is *)
(* left that leads to the option.                                          *)
(***************************************************************************)
Honest(outcome) ==
  outcome.error = "none" /\ outcome.option.state = "callback_run" => outcome.taken = TRUE

(* A callback that was called and did not throw took the values.           *)
LEMMA RunCallbackHonest ==
  ASSUME NEW opt, NEW s
  PROVE  Honest(run_callback(opt, s))
<1>1. ASSUME NEW t PROVE Honest(Call(opt, t))
  <2>1. \A x : Honest(Outcome(x, "ConversionError", FALSE))
    BY DEF Honest, Outcome
  <2>2. \A x : Honest(Outcome(x, opt.throws, opt.throws = "none"))
    BY DEF Honest, Outcome
  <2> QED
    BY <2>1, <2>2 DEF Call
<1>2. \A x : Honest(Outcome(x, "ArgumentMismatch", FALSE)) /\ Honest(Outcome(x, "ValidationError", FALSE))
  BY DEF Honest, Outcome
<1>3. ASSUME NEW t PROVE Honest(Reduce(opt, t))
  BY <1>1, <1>2 DEF Reduce
<1>4. ASSUME NEW t, NEW v PROVE Honest(Validated(opt, t, v))
  BY <1>2, <1>3 DEF Validated
<1>5. ASSUME NEW t PROVE Honest(Run(opt, t))
  <2>1. CASE t.state = "parsing"
    BY <1>4, <2>1 DEF Run
  <2>2. CASE t.state = "validated"
    BY <1>3, <2>2 DEF Run
  <2>3. CASE t.state \notin {"parsing", "validated"}
    BY <1>1, <2>3 DEF Run
  <2> QED
    BY <2>1, <2>2, <2>3
<1> QED
  BY <1>5 DEF run_callback

(* Whose values are new has yet to call its callback.                      *)
LEMMA NewValues ==
  ASSUME NEW s, IsOptionState(s)
  PROVE  /\ \A opt, str : add_result(opt, s, str).state = "parsing"
         /\ \A opt, strs : add_results(opt, s, strs).state = "parsing"
         /\ Cleared(s).state = "parsing"
BY DEF IsOptionState, OptionFields, add_result, add_results, Cleared

(* New values are taken by the callback, or wait for it.                   *)
LEMMA AcceptanceHonest ==
  ASSUME NEW o, NEW s, s.state # "callback_run"
  PROVE  Honest(acceptance(o, s))
<1>1. Honest(Outcome(s, "none", FALSE))
  BY DEF Honest, Outcome
<1> QED
  BY <1>1, RunCallbackHonest DEF acceptance

(* The values that were collected wait for the callback.                   *)
LEMMA FilledWaits ==
  ASSUME NEW opt, NEW s, IsOptionState(s), s.state # "callback_run", NEW g, NEW name
  PROVE  Filled(opt, s, g, name).option.state # "callback_run"
<1>1. /\ \A e, x : Outcome(s, e, x).option.state # "callback_run"
      /\ \A r, e, x : Outcome(add_result(opt, s, r), e, x).option.state # "callback_run"
  BY NewValues DEF Outcome
<1> QED
  BY <1>1 DEF Filled

(* An option named on the line is honest about its callback.               *)
LEMMA OptionArgHonest ==
  ASSUME NEW a, NEW o, IsOptionState(options[o]), NEW split, NEW rest
  PROVE  Honest(option_arg(a, o, split, rest).outcome)
<1>1. ASSUME NEW strs
      PROVE  /\ IsOptionState(add_results(Opt(o), reception(o), strs))
             /\ add_results(Opt(o), reception(o), strs).state = "parsing"
  BY Reception, OptionSteps, NewValues
<1>2. ASSUME NEW s, IsOptionState(s), NEW base, NEW first, NEW back
      PROVE  Honest(Supply(a, o, s, base, split, rest, first, back).outcome)
  <2> DEFINE g == Gather(a, o, s, base, rest)
             new == add_results(Opt(o), s, g.values)
             filled == Filled(Opt(o), new, g, split.name)
             gift == Given(o, g, filled, first, back)
  <2>1. Supply(a, o, s, base, split, rest, first, back) = gift
    BY DEF Supply, Supplied
  <2>2. IsOptionState(new) /\ new.state # "callback_run"
    BY <1>2, OptionSteps, NewValues
  <2> HIDE DEF g, new
  <2>3. filled.option.state # "callback_run"
    BY <2>2, FilledWaits
  <2> HIDE DEF filled
  <2>4. gift.outcome = IF filled.error = "none" THEN acceptance(o, filled.option) ELSE filled
    BY DEF Given
  <2> HIDE DEF gift
  <2>5. Honest(gift.outcome)
    <3>1. CASE filled.error = "none"
      BY <2>3, <2>4, <3>1, AcceptanceHonest
    <3>2. CASE filled.error # "none"
      BY <2>4, <3>2 DEF Honest
    <3> QED
      BY <3>1, <3>2
  <2> QED
    BY <2>1, <2>5
<1>3. Honest(Refused(o, rest).outcome)
  BY DEF Refused, Honest, Outcome
<1>4. \A flag : Honest(Flagged(a, o, split, rest, flag).outcome)
  BY <1>1, <1>2, <1>3 DEF Flagged
<1>5. \A first : Honest(Valued(a, o, split, rest, first).outcome)
  BY <1>1, <1>2 DEF Valued
<1> QED
  BY <1>4, <1>5 DEF option_arg

-----------------------------------------------------------------------------
(* What the callbacks were handed, and what a step does to it: an option   *)
(* stays, has yet to call its callback, or has just called it.             *)
TakenType ==
  /\ taken = [o \in DOMAIN Definition.options |-> taken[o]]
  /\ \A o \in DOMAIN Definition.options : IsSequence(taken[o])

HandedOn(o) ==
  \/ options'[o] = options[o] /\ taken'[o] = taken[o]
  \/ options'[o].state # "callback_run"
  \/ taken'[o] = Append(taken[o], Sent(options'[o]))

TakenMoved ==
  /\ taken' = taken \/ \E o, strs : taken' = [taken EXCEPT ![o] = Append(@, strs)]
  /\ error' # "none" \/ \A o \in DOMAIN Definition.options : HandedOn(o)

(* A step that leaves options alone.                                       *)
LEMMA TakenStays ==
  ASSUME UNCHANGED <<options, taken>>
  PROVE  TakenMoved
BY DEF TakenMoved, HandedOn

(* An option that is handed its values.                                    *)
LEMMA HandTakes ==
  ASSUME TypeInv, TakenType, NEW o \in DOMAIN Definition.options, NEW outcome, Honest(outcome),
         Hand(o, outcome), outcome.error = "none" \/ error' # "none"
  PROVE  TakenMoved
<1>1. /\ DOMAIN options = DOMAIN Definition.options /\ DOMAIN taken = DOMAIN Definition.options
      /\ options' = [options EXCEPT ![o] = outcome.option]
  BY DEF TypeInv, OptionsAre, TakenType, Hand
<1>2. \/ taken' = taken /\ outcome.taken # TRUE
      \/ taken' = [taken EXCEPT ![o] = Append(taken[o], Sent(outcome.option))]
  BY DEF Hand
<1>3. ASSUME outcome.error = "none", NEW p \in DOMAIN Definition.options
      PROVE  HandedOn(p)
  <2>1. CASE p # o
    BY <1>1, <1>2, <2>1 DEF HandedOn
  <2>2. CASE p = o
    <3>1. options'[p] = outcome.option
      BY <1>1, <2>2
    <3>2. CASE taken' = taken /\ outcome.taken # TRUE
      BY <1>3, <3>1, <3>2 DEF HandedOn, Honest
    <3>3. CASE taken' = [taken EXCEPT ![o] = Append(taken[o], Sent(outcome.option))]
      BY <1>1, <2>2, <3>1, <3>3 DEF HandedOn
    <3> QED
      BY <1>2, <3>2, <3>3
  <2> QED
    BY <2>1, <2>2
<1> QED
  BY <1>2, <1>3 DEF TakenMoved

(* An option that takes its values, and an exception if it throws one.     *)
LEMMA AcceptTakes ==
  ASSUME TypeInv, TakenType, NEW o \in DOMAIN Definition.options, NEW outcome, Honest(outcome),
         NEW tasks, Accept(o, outcome, tasks)
  PROVE  TakenMoved
<1>1. outcome.error = "none" \/ error' # "none"
  BY DEF Accept, Raise, Throw
<1> QED
  BY <1>1, HandTakes DEF Accept

(* An option that has new values waits for its callback.                   *)
LEMMA NewValuesWait ==
  ASSUME TypeInv, UNCHANGED taken, NEW o, NEW s, IsOptionState(options[o]) => s.state # "callback_run",
         options' = [options EXCEPT ![o] = s]
  PROVE  TakenMoved
<1>1. DOMAIN options = DOMAIN Definition.options /\ \A p \in DOMAIN options : IsOptionState(options[p])
  BY DEF TypeInv, OptionsAre
<1> QED
  BY <1>1 DEF TakenMoved, HandedOn

(* An app begins to parse: its options stay, or are cleared.               *)
LEMMA TriggerTakes ==
  ASSUME TypeInv, UNCHANGED taken, NEW a, NEW as, Enter(a, as) \/ Trigger(a, as)
  PROVE  TakenMoved
<1>1. DOMAIN options = DOMAIN Definition.options /\ \A p \in DOMAIN options : IsOptionState(options[p])
  BY DEF TypeInv, OptionsAre
<1>2. ASSUME NEW bs, Trigger(a, bs), NEW o \in DOMAIN options
      PROVE  options'[o] = options[o] \/ options'[o].state # "callback_run"
  BY <1>1, <1>2, NewValues DEF Trigger
<1> QED
  BY <1>1, <1>2 DEF Enter, TakenMoved, HandedOn

(* A place for an argument that names nothing.                             *)
LEMMA PositionalTakes ==
  ASSUME TypeInv, TakenType, NEW place \in Places, NEW mode, positional(place, mode), place.kind # "leave"
  PROVE  TakenMoved
<1>1. place.kind \in {"option", "subcommand", "missing", "extras"} /\ place.app \in Apps
  BY DEF Places
<1>2. CASE place.kind = "option"
  <2> DEFINE o == place.option
             new == add_result(Opt(o), reception(o), Head(args))
             outcome == acceptance(o, new)
             tasks == Touch(place.through) \o <<mode>>
  <2>1. Accept(o, outcome, tasks)
    BY <1>2 DEF positional
  <2>2. o \in OptionsIn(Definition, place.app)
    BY <1>2 DEF Places
  <2>3. o \in DOMAIN Definition.options /\ IsOptionState(options[o])
    BY <1>1, <2>2, OptionHeld
  <2>4. new.state # "callback_run"
    BY <2>3, Reception, NewValues
  <2> HIDE DEF o, new, tasks
  <2>5. Honest(outcome)
    BY <2>4, AcceptanceHonest
  <2> HIDE DEF outcome
  <2> QED
    BY <2>1, <2>3, <2>5, AcceptTakes
<1>3. CASE place.kind = "subcommand"
  <2>1. Enter(place.app, apps) /\ UNCHANGED taken
    BY <1>3 DEF positional
  <2> QED
    BY <2>1, TriggerTakes
<1>4. CASE place.kind = "missing"
  BY <1>4, TakenStays DEF positional, effects
<1>5. CASE place.kind = "extras"
  BY <1>5, TakenStays DEF positional, effects, state
<1> QED
  BY <1>1, <1>2, <1>3, <1>4, <1>5

(* The line, argument by argument.                                         *)
LEMMA ParseSingleTakes ==
  ASSUME TypeInv, TakenType, ParseSingle
  PROVE  TakenMoved
<1>1. CASE PositionalMark
  BY <1>1, TakenStays DEF PositionalMark, effects
<1>2. CASE SubcommandTerminator
  BY <1>2, TakenStays DEF SubcommandTerminator, effects, state
<1>3. CASE ParsePositional
  <2>1. Here \in Places
    BY <1>3, HereIs DEF ParsePositional
  <2>2. UNCHANGED <<options, taken>> \/ (Here.kind # "leave" /\ \E mode : positional(Here, mode))
    BY <1>3 DEF ParsePositional, effects, state
  <2> QED
    BY <2>1, <2>2, PositionalTakes, TakenStays
<1>4. CASE RequiredPositional
  <2>1. Here \in Places
    BY <1>4, HereIs DEF RequiredPositional
  <2>2. UNCHANGED <<options, taken>> \/ (Here.kind # "leave" /\ positional(Here, Head(todo)))
    BY <1>4 DEF RequiredPositional, effects, state
  <2> QED
    BY <2>1, <2>2, PositionalTakes, TakenStays
<1>5. CASE Subcommand
  <2>1. UNCHANGED taken /\ (UNCHANGED options \/ \E a, as : Enter(a, as))
    BY <1>5 DEF Subcommand, state
  <2> QED
    BY <2>1, TriggerTakes, TakenStays
<1>6. CASE ParseArg
  <2>1. PICK class \in {"LONG", "SHORT", "WINDOWS_STYLE"} :
          LET split == SplitArg(Head(args), class) IN
          /\ Classified(class)
          /\ placed_arg(PlaceOfArg(Of, class, split.name), class, split)
    BY <1>6 DEF ParseArg
  <2> DEFINE split == SplitArg(Head(args), class)
             place == PlaceOfArg(Of, class, split.name)
             o == place.option
             gift == option_arg(place.app, o, split, Tail(args))
  <2>2. cli \in DOMAIN Interfaces /\ Of \in Apps
    BY <2>1, Unfailing
  <2>3. place \in Places /\ place.kind \in {"option", "missing", "leave"}
    BY <2>2, ArgPlace DEF ArgPlaces
  <2>4. placed_arg(place, class, split)
    BY <2>1
  <2> HIDE DEF split, place
  <2>5. CASE place.kind = "option"
    <3>1. Accept(o, gift.outcome, Touch(place.through) \o <<Head(todo)>>)
      BY <2>4, <2>5 DEF placed_arg, Take
    <3>2. place.app \in Apps /\ o \in OptionsIn(Definition, place.app)
      BY <2>3, <2>5 DEF Places
    <3>3. o \in DOMAIN Definition.options /\ IsOptionState(options[o])
      BY <3>2, OptionHeld
    <3> HIDE DEF o
    <3>4. Honest(gift.outcome)
      BY <3>3, OptionArgHonest
    <3> HIDE DEF gift
    <3> QED
      BY <3>1, <3>3, <3>4, AcceptTakes
  <2>6. CASE place.kind = "missing"
    BY <2>4, <2>6, TakenStays DEF placed_arg, Miss
  <2>7. CASE place.kind = "leave"
    BY <2>4, <2>7, TakenStays DEF placed_arg, state
  <2> QED
    BY <2>3, <2>5, <2>6, <2>7
<1> QED
  BY <1>1, <1>2, <1>3, <1>4, <1>5, <1>6 DEF ParseSingle

(* An item gives its option values (_parse_single_config).                 *)
LEMMA OptionItemTakes ==
  ASSUME TypeInv, TakenType, OptionItem
  PROVE  TakenMoved
<1> DEFINE o == OptionOfItem(TheApp, TheItem)
<1>1. /\ TheApp \in Apps /\ cli \in DOMAIN Interfaces /\ OptionsAre(Definition, options)
      /\ ItemFor(o)
  BY TheItemIs DEF OptionItem, TypeInv
<1>2. o \in DOMAIN Definition.options
  BY <1>1, OptionOfItemIs DEF ItemFor, AnyOption
<1> HIDE DEF o
<1>3. IsOptionState(options[o])
  BY <1>1, <1>2 DEF OptionsAre
<1>4. ASSUME NEW flag, FlagItem(o, flag)
      PROVE  TakenMoved
  <2>1. add_result(Opt(o), options[o], flag.value).state # "callback_run"
    BY <1>3, NewValues
  <2>2. UNCHANGED taken
    BY <1>4 DEF FlagItem
  <2>3. \/ UNCHANGED options
        \/ options' = [options EXCEPT ![o] = add_result(Opt(o), options[o], flag.value)]
    BY <1>4 DEF FlagItem
  <2> QED
    BY <2>1, <2>2, <2>3, NewValuesWait, TakenStays
<1>5. ASSUME NEW inputs, Fill(o, inputs)
      PROVE  TakenMoved
  <2> DEFINE outcome == run_callback(Opt(o), add_results(Opt(o), options[o], inputs))
  <2>1. Honest(outcome)
    BY RunCallbackHonest
  <2>2. \/ \E flag : FlagItem(o, flag)
        \/ UNCHANGED <<options, taken>>
        \/ ValueItem(o, outcome)
    BY <1>5 DEF Fill
  <2> HIDE DEF outcome
  <2>3. CASE ValueItem(o, outcome)
    <3>1. Hand(o, outcome) /\ (outcome.error = "none" \/ error' # "none")
      BY <2>3 DEF ValueItem, Throw
    <3> QED
      BY <1>2, <2>1, <3>1, HandTakes
  <2> QED
    BY <1>4, <2>2, <2>3, TakenStays
<1>6. UNCHANGED <<options, taken>> \/ Fill(o, TheItem.inputs)
  BY <1>1 DEF ItemFor
<1> QED
  BY <1>5, <1>6, TakenStays

(* The configuration file, item by item.                                   *)
LEMMA ConfigureTakes ==
  ASSUME TypeInv, TakenType, Configure
  PROVE  TakenMoved
<1>1. CASE FileRead
  <2> DEFINE o == App(Of).config
             new == add_result(Opt(o), options[o], Head(todo).arg)
  <2>1. options' = [options EXCEPT ![o] = new] /\ UNCHANGED taken
    BY <1>1 DEF FileRead, effects
  <2>2. IsOptionState(options[o]) => new.state # "callback_run"
    BY NewValues
  <2> HIDE DEF o, new
  <2> QED
    BY <2>1, <2>2, NewValuesWait
<1>2. CASE OpenSection
  <2>1. UNCHANGED taken /\ (UNCHANGED options \/ \E as : Enter(TheApp, as))
    BY <1>2 DEF OpenSection, state
  <2> QED
    BY <2>1, TriggerTakes, TakenStays
<1>3. CASE ~FileRead /\ ~OpenSection /\ ~OptionItem
  <2>1. UNCHANGED <<options, taken>>
    BY <1>3 DEF Configure, process_config_file, ReadFile, FileError, ItemsDone, UnknownItem, CloseSection,
                effects, state
  <2> QED
    BY <2>1, TakenStays
<1> QED
  BY <1>1, <1>2, <1>3, OptionItemTakes

(* What comes after the arguments.                                         *)
LEMMA ProcessTakes ==
  ASSUME TypeInv, TakenType, Process
  PROVE  TakenMoved
<1>1. CASE process_env
  <2>1. DOMAIN options = DOMAIN Definition.options /\ \A p \in DOMAIN options : IsOptionState(options[p])
    BY DEF TypeInv, OptionsAre
  <2>2. UNCHANGED taken
    BY <1>1 DEF process_env, effects
  <2>3. ASSUME NEW o \in DOMAIN Definition.options
        PROVE  options'[o] = options[o] \/ options'[o].state # "callback_run"
    <3> DEFINE new == add_result(Opt(o), options[o], given.env[Opt(o).envname])
    <3>1. options'[o] = options[o] \/ options'[o] = new
      BY <1>1, <2>1 DEF process_env
    <3>2. new.state = "parsing"
      BY <2>1, NewValues
    <3> HIDE DEF new
    <3> QED
      BY <3>1, <3>2
  <2> QED
    BY <2>2, <2>3 DEF TakenMoved, HandedOn
<1>2. CASE OptionCallback
  <2> DEFINE o == Head(todo).arg
             outcome == run_callback(Opt(o), options[o])
  <2>1. todo # <<>> /\ Head(todo).do = "callback"
    BY <1>2 DEF OptionCallback, Doing
  <2>2. o \in DOMAIN Definition.options
    BY <2>1, TheTask DEF IsTask
  <2>3. Accept(o, outcome, <<>>) \/ UNCHANGED <<options, taken>>
    BY <1>2 DEF OptionCallback
  <2>4. Honest(outcome)
    BY RunCallbackHonest
  <2> HIDE DEF o, outcome
  <2> QED
    BY <2>2, <2>3, <2>4, AcceptTakes, TakenStays
<1>3. CASE ~process_env /\ ~OptionCallback
  <2>1. UNCHANGED <<options, taken>>
    BY <1>3 DEF Process, process_callbacks, ProcessGroup, ProcessSubcommand, process_help_flags,
                process_requirements, process_extras, RunCallbacks, effects, state
  <2> QED
    BY <2>1, TakenStays
<1> QED
  BY <1>1, <1>2, <1>3

(* Every step of a parse.                                                  *)
LEMMA QuietlyTakes ==
  ASSUME TypeInv, TakenType, Quietly
  PROVE  TakenMoved
<1>1. CASE EndOfLine
  BY <1>1, TakenStays DEF EndOfLine, effects, state
<1>2. CASE TouchGroup
  <2>1. UNCHANGED taken /\ (UNCHANGED options \/ Trigger(Of, apps))
    BY <1>2 DEF TouchGroup, state
  <2> QED
    BY <2>1, TriggerTakes, TakenStays
<1>3. CASE Passed
  <2>1. UNCHANGED taken /\ \E as : Trigger(Of, as)
    BY <1>3 DEF Passed
  <2> QED
    BY <2>1, TriggerTakes
<1> QED
  BY <1>1, <1>2, <1>3, ParseSingleTakes, ConfigureTakes, ProcessTakes DEF Quietly

(* An option whose callback was called shows what the callback was handed; *)
(* before its first parse a program has called none.                       *)
Stored(s, values) == s.state = "callback_run" => values # <<>> /\ Last(values) = Sent(s)
TakenInv ==
  /\ TakenType
  /\ error = "none" => \A o \in DOMAIN Definition.options : Stored(options[o], taken[o])
  /\ apps[Root].parsed > 0 \/ \A o \in DOMAIN Definition.options : options[o].state = "parsing"

(* The last of a sequence to which something was appended.                 *)
LEMMA AppendFacts ==
  ASSUME NEW s, IsSequence(s), NEW e
  PROVE  IsSequence(Append(s, e)) /\ Append(s, e) # <<>> /\ Last(Append(s, e)) = e
<1> DEFINE r == s \o <<e>>
<1>1. /\ IsSequence(r) /\ Len(r) = Len(s) + 1 /\ r[Len(s) + 1] = e /\ Len(s) \in Nat
  BY ConcatFacts, OneFacts, SequenceFacts
<1>2. Append(s, e) = r
  <2>1. s \in Seq(Range(s) \cup {e})
    BY DEF IsSequence
  <2> QED
    BY <2>1
<1> HIDE DEF r
<1> QED
  BY <1>1, <1>2, EmptyFacts DEF Last

(* A step of a parse keeps it.                                             *)
LEMMA TakenGoesOn ==
  ASSUME TypeInv, Stages, CountsInv, TakenInv, Quietly
  PROVE  TakenInv'
<1>1. TakenMoved /\ UNCHANGED cli /\ Definition' = Definition /\ Root' = Root
  BY QuietlyTakes, QuietlyMoves, JudgesKeep DEF TakenInv, Kept, Definition, Root
<1>2. todo # <<>> /\ CountsMoved
  BY SameParse, QuietlyCounts
<1>3. apps'[Root].parsed > 0
  BY <1>2, MovedAll DEF CountsInv
<1>4. /\ taken = [o \in DOMAIN Definition.options |-> taken[o]]
      /\ \A o \in DOMAIN Definition.options : IsSequence(taken[o])
  BY DEF TakenInv, TakenType
<1>5. /\ taken' = [o \in DOMAIN Definition.options |-> taken'[o]]
      /\ \A o \in DOMAIN Definition.options : IsSequence(taken'[o])
  <2>1. CASE taken' = taken
    BY <1>4, <2>1
  <2>2. ASSUME NEW o, NEW strs, taken' = [taken EXCEPT ![o] = Append(taken[o], strs)]
        PROVE  /\ taken' = [p \in DOMAIN Definition.options |-> taken'[p]]
               /\ \A p \in DOMAIN Definition.options : IsSequence(taken'[p])
    <3>1. o \in DOMAIN Definition.options => IsSequence(Append(taken[o], strs))
      BY <1>4, AppendFacts
    <3> QED
      BY <1>4, <2>2, <3>1
  <2> QED
    BY <1>1, <2>1, <2>2 DEF TakenMoved
<1>6. ASSUME error' = "none", NEW o \in DOMAIN Definition.options
      PROVE  Stored(options'[o], taken'[o])
  <2>1. error = "none"
    <3>1. ASSUME HasThrown PROVE FALSE
      <4>1. Head(todo).do = "return"
        BY <3>1 DEF HasThrown, Return, Task
      <4> QED
        BY <4>1, NotJudging, JudgeTask
    <3> QED
      BY <1>6, <3>1, ErrorsStay
  <2>2. HandedOn(o) /\ Stored(options[o], taken[o])
    BY <1>1, <1>6, <2>1 DEF TakenMoved, TakenInv
  <2>3. CASE options'[o] = options[o] /\ taken'[o] = taken[o]
    BY <2>2, <2>3
  <2>4. CASE options'[o].state # "callback_run"
    BY <2>4 DEF Stored
  <2>5. CASE taken'[o] = Append(taken[o], Sent(options'[o]))
    <3> DEFINE x == Sent(options'[o])
    <3>1. taken'[o] = Append(taken[o], x) /\ Append(taken[o], x) # <<>> /\ Last(Append(taken[o], x)) = x
      BY <1>4, <2>5, AppendFacts
    <3> QED
      BY <3>1 DEF Stored
  <2> QED
    BY <2>2, <2>3, <2>4, <2>5 DEF HandedOn
<1> QED
  BY <1>1, <1>3, <1>5, <1>6 DEF TakenInv, TakenType

(* A parse begins with nothing handed to any callback, and none called.    *)
LEMMA ParseTakes ==
  ASSUME TypeInv, CountsInv, TakenInv, parse
  PROVE  TakenInv'
<1>1. /\ UNCHANGED cli /\ Definition' = Definition /\ Root' = Root
      /\ taken' = [o \in DOMAIN options |-> <<>>] /\ options' = clear.options
      /\ DOMAIN options = DOMAIN Definition.options
      /\ \A o \in DOMAIN Definition.options : IsOptionState(options[o])
  BY DEF parse, Definition, Root, TypeInv, OptionsAre
<1>2. apps'[Root].parsed > 0
  <2>1. CountsInv' /\ todo' # <<>>
    BY ParseCounts, ParseMoves
  <2> QED
    BY <1>1, <2>1 DEF CountsInv
<1>3. ASSUME NEW o \in DOMAIN Definition.options
      PROVE  options'[o].state = "parsing"
  <2>1. CASE apps[Root].parsed > 0
    <3>1. options' = [p \in DOMAIN options |-> Cleared(options[p])]
      BY <1>1, <2>1 DEF clear
    <3> QED
      BY <1>1, <3>1, NewValues
  <2>2. CASE ~(apps[Root].parsed > 0)
    <3>1. options' = options
      BY <1>1, <2>2 DEF clear
    <3> QED
      BY <2>2, <3>1 DEF TakenInv
  <2> QED
    BY <2>1, <2>2
<1>4. TakenType'
  <2>1. IsSequence(<<>>)
    BY EmptyFacts
  <2> QED
    BY <1>1, <2>1 DEF TakenType
<1>5. \A o \in DOMAIN Definition.options : Stored(options'[o], taken'[o])
  BY <1>3 DEF Stored
<1> QED
  BY <1>1, <1>2, <1>4, <1>5 DEF TakenInv

(* Every step keeps it.                                                    *)
LEMMA TakenFollows ==
  ASSUME TypeInv, Stages, CountsInv, TakenInv, [Next]_vars
  PROVE  TakenInv'
<1>1. CASE parse
  BY <1>1, ParseTakes
<1>2. CASE Quietly
  BY <1>2, TakenGoesOn
<1>3. CASE Returned \/ UNCHANGED vars
  <2>1. UNCHANGED <<cli, apps, options, error, taken>>
    BY <1>3 DEF Returned, vars, parsing, state, input, effects
  <2> QED
    BY <2>1 DEF TakenInv, TakenType, Definition, Root
<1> QED
  BY <1>1, <1>2, <1>3 DEF Next, Step, Quietly

(* At first no callback was called.                                        *)
LEMMA TakenBegins ==
  ASSUME Init
  PROVE  TakenInv
<1>1. /\ options = [o \in DOMAIN Definition.options |-> Fresh]
      /\ taken = [o \in DOMAIN options |-> <<>>]
  BY DEF Init, Definition
<1>2. Fresh.state = "parsing" /\ IsSequence(<<>>)
  BY EmptyFacts DEF Fresh
<1> QED
  BY <1>1, <1>2 DEF TakenInv, TakenType, Stored
-----------------------------------------------------------------------------
(* What is left to do when the callbacks of the options are called, and    *)
(* which task calls the one of an option.                                  *)
ClosingKinds == LateKinds \cup {"help"}
ServingKinds == ClosingKinds \cup {"callbacks", "group", "callback", "subcommand"}
AllClosing(s) == \A t \in Range(s) : t.do \in ClosingKinds

OpensCallbacks(d, t) == IsRootFrame(d, t) \/ (t.do = "callbacks" /\ t.of = d.root)
CallbacksAhead(d, s) ==
  \E k \in 1 .. Len(s) :
    OpensCallbacks(d, s[k]) /\ \A i \in k + 1 .. Len(s) : s[i].do \in ClosingKinds

Serves(d, t, o) ==
  \/ t.do = "callback" /\ t.arg = o
  \/ /\ t.do \in {"callbacks", "subcommand"}
     /\ \E b \in {t.of} \cup Under(d, t.of) : o \in OptionsIn(d, b)
Settled(s) == s.results = <<>> \/ s.state = "callback_run"
AllServed(d, s, opts) ==
  /\ \A t \in Range(s) : t.do \in ServingKinds
  /\ \A a \in DOMAIN d.apps : \A o \in OptionsIn(d, a) :
       Settled(opts[o]) \/ \E t \in Range(s) : Serves(d, t, o)

Serving == AllServed(Definition, todo, options)
ServedStages == todo = <<>> \/ error # "none" \/ CallbacksAhead(Definition, todo) \/ Serving

(* Tasks before it or closing ones after it: the callbacks stay ahead.     *)
LEMMA CallbacksFollow ==
  ASSUME NEW d, NEW s, NEW t, IsSequence(s), IsSequence(t)
  PROVE  /\ CallbacksAhead(d, t) => CallbacksAhead(d, s \o t)
         /\ CallbacksAhead(d, s) /\ AllClosing(t) => CallbacksAhead(d, s \o t)
<1> DEFINE r == s \o t
<1>1. /\ Len(r) = Len(s) + Len(t) /\ Len(s) \in Nat /\ Len(t) \in Nat
      /\ \A i \in 1 .. Len(s) : r[i] = s[i]
      /\ \A i \in 1 .. Len(t) : r[Len(s) + i] = t[i]
      /\ \A i \in 1 .. Len(t) : t[i] \in Range(t)
  BY ConcatFacts, SequenceFacts
<1> HIDE DEF r
<1>2. ASSUME CallbacksAhead(d, t)
      PROVE  CallbacksAhead(d, r)
  <2>1. PICK k \in 1 .. Len(t) : /\ OpensCallbacks(d, t[k])
                                 /\ \A i \in k + 1 .. Len(t) : t[i].do \in ClosingKinds
    BY <1>2 DEF CallbacksAhead
  <2>2. Len(s) + k \in 1 .. Len(r) /\ r[Len(s) + k] = t[k]
    BY <1>1
  <2>3. ASSUME NEW i \in (Len(s) + k) + 1 .. Len(r)
        PROVE  r[i].do \in ClosingKinds
    <3>1. i - Len(s) \in k + 1 .. Len(t) /\ i - Len(s) \in 1 .. Len(t) /\ i = Len(s) + (i - Len(s))
      BY <1>1
    <3>2. r[i] = t[i - Len(s)]
      BY <1>1, <3>1
    <3> QED
      BY <2>1, <3>1, <3>2
  <2> QED
    BY <2>1, <2>2, <2>3 DEF CallbacksAhead
<1>3. ASSUME CallbacksAhead(d, s), AllClosing(t)
      PROVE  CallbacksAhead(d, r)
  <2>1. PICK k \in 1 .. Len(s) : /\ OpensCallbacks(d, s[k])
                                 /\ \A i \in k + 1 .. Len(s) : s[i].do \in ClosingKinds
    BY <1>3 DEF CallbacksAhead
  <2>2. k \in 1 .. Len(r) /\ r[k] = s[k]
    BY <1>1
  <2>3. ASSUME NEW i \in k + 1 .. Len(r)
        PROVE  r[i].do \in ClosingKinds
    <3>1. CASE i <= Len(s)
      <4>1. i \in k + 1 .. Len(s) /\ i \in 1 .. Len(s)
        BY <1>1, <3>1
      <4> QED
        BY <1>1, <2>1, <4>1
    <3>2. CASE i > Len(s)
      <4>1. i - Len(s) \in 1 .. Len(t) /\ i = Len(s) + (i - Len(s))
        BY <1>1, <3>2
      <4>2. r[i] = t[i - Len(s)]
        BY <1>1, <4>1
      <4> QED
        BY <1>1, <1>3, <4>1, <4>2 DEF AllClosing
    <3> QED
      BY <1>1, <3>1, <3>2
  <2> QED
    BY <2>1, <2>2, <2>3 DEF CallbacksAhead
<1> QED
  BY <1>2, <1>3 DEF r

(* The callbacks are ahead after the first task, or that is the one.       *)
LEMMA CallbacksAheadHead ==
  ASSUME NEW d, NEW s, IsSequence(s), CallbacksAhead(d, s)
  PROVE  /\ s # <<>>
         /\ \/ CallbacksAhead(d, Tail(s))
            \/ OpensCallbacks(d, Head(s)) /\ AllClosing(Tail(s))
<1>1. PICK k \in 1 .. Len(s) : /\ OpensCallbacks(d, s[k])
                               /\ \A i \in k + 1 .. Len(s) : s[i].do \in ClosingKinds
  BY DEF CallbacksAhead
<1>2. s # <<>>
  BY EmptyFacts
<1> DEFINE t == Tail(s)
<1>3. /\ IsSequence(t) /\ Len(t) = Len(s) - 1 /\ Len(s) >= 1 /\ Len(s) \in Nat
      /\ \A i \in 1 .. Len(s) - 1 : t[i] = s[i + 1]
      /\ Head(s) = s[1] /\ DOMAIN t = 1 .. Len(t)
  BY <1>2, TailFacts, SequenceFacts
<1> HIDE DEF t
<1>4. CASE k = 1
  <2>1. ASSUME NEW x \in Range(t)
        PROVE  x.do \in ClosingKinds
    <3>1. PICK i \in DOMAIN t : x = t[i]
      BY DEF Range
    <3>2. i + 1 \in k + 1 .. Len(s) /\ x = s[i + 1]
      BY <1>3, <1>4, <3>1
    <3> QED
      BY <1>1, <3>2
  <2> QED
    BY <1>1, <1>2, <1>3, <1>4, <2>1 DEF AllClosing, t
<1>5. CASE k # 1
  <2>1. k - 1 \in 1 .. Len(t) /\ t[k - 1] = s[k]
    BY <1>3, <1>5
  <2>2. \A i \in (k - 1) + 1 .. Len(t) : t[i].do \in ClosingKinds
    <3> SUFFICES ASSUME NEW i \in (k - 1) + 1 .. Len(t) PROVE t[i].do \in ClosingKinds
      OBVIOUS
    <3>1. i + 1 \in k + 1 .. Len(s) /\ t[i] = s[i + 1]
      BY <1>3
    <3> QED
      BY <1>1, <3>1
  <2>3. CallbacksAhead(d, t)
    BY <1>1, <2>1, <2>2 DEF CallbacksAhead
  <2> QED
    BY <1>2, <2>3 DEF t
<1> QED
  BY <1>4, <1>5

(* What takes the place of the frame of the root has the callbacks ahead.  *)
LEMMA EndingOpens ==
  ASSUME cli \in DOMAIN Interfaces, NEW tasks, IsSequence(tasks),
         EndsInFrame(tasks) \/ tasks = Ending(Root)
  PROVE  CallbacksAhead(Definition, tasks)
<1>1. CASE EndsInFrame(tasks)
  <2> DEFINE k == Len(tasks)
  <2>1. k \in 1 .. Len(tasks)
    BY <1>1, SequenceFacts, EmptySeq DEF EndsInFrame, IsSequence
  <2>2. OpensCallbacks(Definition, tasks[k])
    BY <1>1 DEF EndsInFrame, OpensCallbacks
  <2>3. k + 1 .. Len(tasks) = {}
    BY <2>1
  <2> QED
    BY <2>1, <2>2, <2>3 DEF CallbacksAhead
<1>2. CASE tasks = Ending(Root)
  <2> DEFINE s == <<Task("config", Root), Task("env", Root), Task("callbacks", Root), Task("help", Root),
                    Task("requirements", Root), Task("extras", Root), Task("run_final", Root)>>
  <2>1. Root \in Apps /\ Root = Definition.root /\ IsRoot(Root)
    BY Now, RootIs
  <2>2. tasks = s
    BY <1>2, <2>1 DEF Ending
  <2>3. /\ Len(s) = 7 /\ s[3] = Task("callbacks", Root) /\ s[4] = Task("help", Root)
        /\ s[5] = Task("requirements", Root) /\ s[6] = Task("extras", Root) /\ s[7] = Task("run_final", Root)
    OBVIOUS
  <2> HIDE DEF s
  <2>4. 3 \in 1 .. Len(s) /\ 3 + 1 .. Len(s) = {4, 5, 6, 7}
    BY <2>3
  <2>5. OpensCallbacks(Definition, s[3])
    BY <2>1, <2>3 DEF OpensCallbacks, Task
  <2>6. \A i \in {4, 5, 6, 7} : s[i].do \in ClosingKinds
    BY <2>3 DEF ClosingKinds, LateKinds, Task
  <2> QED
    BY <2>2, <2>4, <2>5, <2>6 DEF CallbacksAhead
<1> QED
  BY <1>1, <1>2

(* An element of a sequence is the first or one of the others.             *)
LEMMA HeadOrTail ==
  ASSUME NEW s, IsSequence(s), NEW x \in Range(s)
  PROVE  s # <<>> /\ (x = Head(s) \/ x \in Range(Tail(s)))
<1>1. s # <<>>
  BY EmptyFacts
<1> DEFINE t == Tail(s)
<1>2. /\ IsSequence(t) /\ Len(t) = Len(s) - 1 /\ Len(s) \in Nat
      /\ \A i \in 1 .. Len(s) - 1 : t[i] = s[i + 1]
      /\ Head(s) = s[1] /\ DOMAIN s = 1 .. Len(s)
      /\ \A i \in 1 .. Len(t) : t[i] \in Range(t)
  BY <1>1, TailFacts, SequenceFacts
<1> HIDE DEF t
<1>3. PICK i \in 1 .. Len(s) : x = s[i]
  BY <1>2 DEF Range
<1>4. CASE i = 1
  BY <1>1, <1>2, <1>3, <1>4
<1>5. CASE i # 1
  <2>1. i - 1 \in 1 .. Len(s) - 1 /\ (i - 1) + 1 = i
    BY <1>2, <1>5
  <2>2. t[i - 1] = s[i] /\ i - 1 \in 1 .. Len(t)
    BY <1>2, <2>1
  <2>3. x \in Range(t)
    BY <1>2, <1>3, <2>2
  <2> QED
    BY <1>1, <2>3 DEF t
<1> QED
  BY <1>4, <1>5

(* What the first task leads to was settled, or some task that takes its   *)
(* place leads there: every option is served as before.                    *)
LEMMA ServedOn ==
  ASSUME NEW d, NEW s, IsSequence(s), s # <<>>, NEW opts, AllServed(d, s, opts), NEW new,
         NEW tasks, IsSequence(tasks), \A t \in Range(tasks) : t.do \in ServingKinds,
         \A a \in DOMAIN d.apps : \A o \in OptionsIn(d, a) :
           /\ Settled(opts[o]) => Settled(new[o])
           /\ Serves(d, Head(s), o) => Settled(new[o]) \/ \E t \in Range(tasks) : Serves(d, t, o)
  PROVE  AllServed(d, tasks \o Tail(s), new)
<1> DEFINE r == tasks \o Tail(s)
<1>1. IsSequence(Tail(s)) /\ Range(Tail(s)) \subseteq Range(s)
  BY TailFacts
<1>2. Range(r) = Range(tasks) \cup Range(Tail(s))
  BY <1>1, ConcatFacts
<1> HIDE DEF r
<1>3. \A t \in Range(r) : t.do \in ServingKinds
  BY <1>1, <1>2 DEF AllServed
<1>4. ASSUME NEW a \in DOMAIN d.apps, NEW o \in OptionsIn(d, a)
      PROVE  Settled(new[o]) \/ \E t \in Range(r) : Serves(d, t, o)
  <2>1. CASE Settled(opts[o])
    BY <2>1
  <2>2. ASSUME NEW t \in Range(s), Serves(d, t, o)
        PROVE  Settled(new[o]) \/ \E u \in Range(r) : Serves(d, u, o)
    <3>1. t = Head(s) \/ t \in Range(Tail(s))
      BY HeadOrTail
    <3> QED
      BY <1>2, <2>2, <3>1
  <2> QED
    BY <2>1, <2>2 DEF AllServed
<1> QED
  BY <1>3, <1>4 DEF AllServed, r

(* When the callbacks of the root are next they lead to every option.      *)
LEMMA OpenIsServing ==
  ASSUME TypeInv, todo # <<>>, Head(todo).do = "callbacks", Head(todo).of = Definition.root,
         AllClosing(Tail(todo))
  PROVE  Serving
<1>1. IsSequence(todo) /\ Head(todo) \in Range(todo) /\ IsTree(Definition)
  BY TailFacts, Now DEF TypeInv, TasksAre
<1>2. \A t \in Range(todo) : t.do \in ServingKinds
  <2> SUFFICES ASSUME NEW t \in Range(todo) PROVE t.do \in ServingKinds
    OBVIOUS
  <2>1. t = Head(todo) \/ t \in Range(Tail(todo))
    BY <1>1, HeadOrTail
  <2> QED
    BY <2>1 DEF AllClosing, ServingKinds
<1>3. ASSUME NEW a \in DOMAIN Definition.apps, NEW o \in OptionsIn(Definition, a)
      PROVE  Serves(Definition, Head(todo), o)
  <2>1. a \in {Definition.root} \cup Under(Definition, Definition.root)
    BY <1>1, UnderRoot
  <2> QED
    BY <2>1 DEF Serves
<1> QED
  BY <1>1, <1>2, <1>3 DEF Serving, AllServed

(* What is done when the callbacks are called.                             *)
LEMMA ServingActions ==
  ASSUME Quietly, ~Judges, ~RunCallbacks, Head(todo).do \in ServingKinds
  PROVE  process_callbacks \/ ProcessGroup \/ ProcessSubcommand \/ OptionCallback
<1>1. Head(todo).do \in {"callbacks", "group", "callback", "subcommand"}
  BY OtherTasks DEF ServingKinds, ClosingKinds
<1>2. ~(ParseSingle \/ EndOfLine \/ Passed \/ TouchGroup)
  BY <1>1 DEF ParseSingle, PositionalMark, SubcommandTerminator, ParsePositional, RequiredPositional,
              Subcommand, ParseArg, EndOfLine, Passed, TouchGroup, Classified, InFrame, Doing
<1>3. ~Configure
  BY <1>1 DEF Configure, process_config_file, ReadFile, FileRead, FileError, ItemsDone, UnknownItem,
              OpenSection, CloseSection, OptionItem, Doing, NextItem
<1>4. ~process_env
  BY <1>1 DEF process_env, Doing
<1> QED
  BY <1>2, <1>3, <1>4 DEF Quietly, Process, Judges

(* A callback that does not throw was called.                              *)
LEMMA RunSettles ==
  ASSUME NEW opt, NEW s, IsOptionState(s), run_callback(opt, s).error = "none"
  PROVE  run_callback(opt, s).option.state = "callback_run"
<1> DEFINE Ran(outcome) == outcome.error = "none" => outcome.option.state = "callback_run"
<1>1. ASSUME NEW t, IsOptionState(t) PROVE Ran(Call(opt, t))
  <2>1. [t EXCEPT !.state = "callback_run"].state = "callback_run"
    BY <1>1 DEF IsOptionState, OptionFields
  <2>2. \A e, x : Ran(Outcome([t EXCEPT !.state = "callback_run"], e, x))
    BY <2>1 DEF Outcome
  <2> HIDE DEF Ran
  <2> QED
    BY <2>2 DEF Call
<1>2. \A x : Ran(Outcome(x, "ArgumentMismatch", FALSE)) /\ Ran(Outcome(x, "ValidationError", FALSE))
  BY DEF Outcome
<1> HIDE DEF Ran
<1>3. ASSUME NEW t, IsOptionState(t) PROVE Ran(Reduce(opt, t))
  <2>1. \A r : IsOptionState([t EXCEPT !.proc_results = r])
    BY <1>3 DEF IsOptionState, OptionFields, OptionStates
  <2> QED
    BY <1>1, <1>2, <2>1 DEF Reduce
<1>4. ASSUME NEW t, IsOptionState(t), NEW v PROVE Ran(Validated(opt, t, v))
  <2>1. IsOptionState([t EXCEPT !.results = v.values, !.state = "validated"])
    BY <1>4 DEF IsOptionState, OptionFields, OptionStates
  <2> QED
    BY <1>2, <1>3, <2>1 DEF Validated
<1>5. IsOptionState(Forced(opt, s))
  BY OptionSteps DEF Forced
<1>6. ASSUME NEW t, IsOptionState(t) PROVE Ran(Run(opt, t))
  BY <1>1, <1>3, <1>4, <1>6 DEF Run
<1>7. Ran(run_callback(opt, s))
  BY <1>5, <1>6 DEF run_callback
<1> QED
  BY <1>7 DEF Ran

(* A step that puts tasks in the place of the first one.                   *)
LEMMA ServedAgain ==
  ASSUME TypeInv, todo # <<>>, Serving, UNCHANGED cli,
         NEW tasks, IsSequence(tasks), \A t \in Range(tasks) : t.do \in ServingKinds,
         \A a \in DOMAIN Definition.apps : \A o \in OptionsIn(Definition, a) :
           /\ Settled(options[o]) => Settled(options'[o])
           /\ Serves(Definition, Head(todo), o) =>
                Settled(options'[o]) \/ \E t \in Range(tasks) : Serves(Definition, t, o),
         todo' = tasks \o Tail(todo)
  PROVE  Serving'
<1>1. IsSequence(todo)
  BY DEF TypeInv, TasksAre
<1>2. AllServed(Definition, tasks \o Tail(todo), options')
  BY <1>1, ServedOn DEF Serving
<1> DEFINE s == tasks \o Tail(todo)
<1>3. todo' = s /\ AllServed(Definition, s, options') /\ Definition' = Definition
  BY <1>2 DEF Definition
<1> HIDE DEF s
<1> QED
  BY <1>3 DEF Serving

(* Every option of the app and of what is below it still is led to: by its *)
(* own task or by that of a subcommand (_process_callbacks).               *)
LEMMA CallbacksServe ==
  ASSUME TypeInv, Serving, process_callbacks
  PROVE  Serving'
<1> DEFINE ForSubs(do) == [i \in DOMAIN App(Of).subs |-> Task(do, App(Of).subs[i])]
           own == App(Of).options
           listed == App(Of).subs
           groups == ForSubs("group")
           mine == [i \in DOMAIN own |-> TaskWith("callback", Of, own[i])]
           subs == ForSubs("subcommand")
           tasks == groups \o mine \o subs
<1>1. /\ todo # <<>> /\ Head(todo).do = "callbacks" /\ UNCHANGED <<cli, options>>
      /\ todo' = tasks \o Tail(todo)
  BY DEF process_callbacks, Doing, Then, Quiet, input, state
<1>2. Of \in Apps /\ cli \in DOMAIN Interfaces /\ Of = Head(todo).of
  BY <1>1, TheTask DEF Of
<1>3. IsTree(Definition) /\ Of \in DOMAIN Definition.apps /\ App(Of) = Definition.apps[Of]
  BY <1>2, Now
<1>4. IsSequence(groups) /\ \A t \in Range(groups) : t.do = "group"
  BY <1>2, TasksForSubs DEF EarlyKinds, Frames, TasksAre, Range, Task
<1>5. /\ IsSequence(mine) /\ \A t \in Range(mine) : t.do = "callback"
      /\ \A o \in Range(own) : \E t \in Range(mine) : t.do = "callback" /\ t.arg = o
  <2>1. IsSequence(mine)
    BY <1>2, TasksForOptions DEF TasksAre
  <2>2. mine = [i \in DOMAIN own |-> TaskWith("callback", Of, own[i])]
    OBVIOUS
  <2> HIDE DEF own, mine
  <2>3. DOMAIN mine = DOMAIN own /\ \A i \in DOMAIN own : mine[i].do = "callback" /\ mine[i].arg = own[i]
    BY <2>2 DEF TaskWith
  <2> QED
    BY <2>1, <2>3 DEF Range
<1>6. /\ IsSequence(subs) /\ \A t \in Range(subs) : t.do = "subcommand"
      /\ \A sub \in Range(listed) : \E t \in Range(subs) : t.do = "subcommand" /\ t.of = sub
  <2>1. IsSequence(subs)
    BY <1>2, TasksForSubs DEF EarlyKinds, Frames, TasksAre
  <2>2. subs = [i \in DOMAIN listed |-> Task("subcommand", listed[i])]
    OBVIOUS
  <2> HIDE DEF listed, subs
  <2>3. DOMAIN subs = DOMAIN listed /\ \A i \in DOMAIN listed : subs[i].do = "subcommand" /\ subs[i].of = listed[i]
    BY <2>2 DEF Task
  <2> QED
    BY <2>1, <2>3 DEF Range
<1> HIDE DEF groups, mine, subs
<1>7. IsSequence(tasks) /\ Range(tasks) = Range(groups) \cup Range(mine) \cup Range(subs)
  <2>1. IsSequence(groups \o mine) /\ Range(groups \o mine) = Range(groups) \cup Range(mine)
    BY <1>4, <1>5, ConcatFacts
  <2> QED
    BY <1>6, <2>1, ConcatFacts
<1> HIDE DEF tasks
<1>8. \A t \in Range(tasks) : t.do \in ServingKinds
  BY <1>4, <1>5, <1>6, <1>7 DEF ServingKinds
<1>9. ASSUME NEW o, Serves(Definition, Head(todo), o)
      PROVE  \E t \in Range(tasks) : Serves(Definition, t, o)
  <2>1. PICK b \in {Of} \cup Under(Definition, Of) : o \in OptionsIn(Definition, b)
    BY <1>1, <1>2, <1>9 DEF Serves
  <2>2. CASE b = Of
    <3>1. PICK t \in Range(mine) : t.do = "callback" /\ t.arg = o
      BY <1>3, <1>5, <2>1, <2>2 DEF OptionsIn
    <3> QED
      BY <1>7, <3>1 DEF Serves
  <2>3. CASE b \in Under(Definition, Of)
    <3>1. PICK sub \in SubsIn(Definition, Of) : b = sub \/ b \in Under(Definition, sub)
      BY <1>3, <2>3, UnderUnfolds
    <3>2. PICK t \in Range(subs) : t.do = "subcommand" /\ t.of = sub
      BY <1>3, <1>6, <3>1 DEF SubsIn
    <3>3. Serves(Definition, t, o)
      BY <2>1, <3>1, <3>2 DEF Serves
    <3> QED
      BY <1>7, <3>2, <3>3
  <2> QED
    BY <2>1, <2>2, <2>3
<1>10. \A a \in DOMAIN Definition.apps : \A o \in OptionsIn(Definition, a) :
         /\ Settled(options[o]) => Settled(options'[o])
         /\ Serves(Definition, Head(todo), o) =>
              Settled(options'[o]) \/ \E t \in Range(tasks) : Serves(Definition, t, o)
  BY <1>1, <1>9
<1> QED
  BY <1>1, <1>7, <1>8, <1>10, ServedAgain

(* The first task leads to no option, and is done.                         *)
LEMMA ServedTask ==
  ASSUME TypeInv, todo # <<>>, Serving, UNCHANGED <<cli, options>>, todo' = Tail(todo),
         Head(todo).do \notin {"callback", "callbacks", "subcommand"}
  PROVE  Serving'
<1>1. IsSequence(Tail(todo))
  BY TasksLeft DEF TasksAre
<1>2. todo' = <<>> \o Tail(todo) /\ IsSequence(<<>>) /\ Range(<<>>) = {}
  BY <1>1, NothingFirst, EmptyFacts
<1>3. \A a \in DOMAIN Definition.apps : \A o \in OptionsIn(Definition, a) :
        /\ Settled(options[o]) => Settled(options'[o])
        /\ ~Serves(Definition, Head(todo), o)
  BY DEF Serves
<1> QED
  BY <1>2, <1>3, ServedAgain

(* A subcommand without a callback of its own has its callbacks called.    *)
LEMMA SubcommandServes ==
  ASSUME TypeInv, Tame, Serving, ProcessSubcommand
  PROVE  Serving'
<1> DEFINE t == Task("callbacks", Of)
           tasks == <<t>>
<1>1. todo # <<>> /\ Head(todo).do = "subcommand"
  BY DEF ProcessSubcommand, Doing
<1>2. Of \in Apps /\ Of = Head(todo).of
  BY <1>1, TheTask DEF Of
<1>3. UNCHANGED <<cli, options>> /\ todo' = tasks \o Tail(todo)
  BY <1>2 DEF ProcessSubcommand, Then, Quiet, input, state, Tame
<1>4. IsSequence(tasks) /\ Range(tasks) = {t} /\ t.do = "callbacks" /\ t.of = Of
  BY OneFacts DEF Task
<1> HIDE DEF tasks, t
<1>5. \A o : Serves(Definition, Head(todo), o) => Serves(Definition, t, o)
  BY <1>1, <1>2, <1>4 DEF Serves
<1>6. \A x \in Range(tasks) : x.do \in ServingKinds
  BY <1>4 DEF ServingKinds
<1>7. \A a \in DOMAIN Definition.apps : \A o \in OptionsIn(Definition, a) :
        /\ Settled(options[o]) => Settled(options'[o])
        /\ Serves(Definition, Head(todo), o) =>
             Settled(options'[o]) \/ \E x \in Range(tasks) : Serves(Definition, x, o)
  BY <1>3, <1>4, <1>5
<1> QED
  BY <1>1, <1>3, <1>4, <1>6, <1>7, ServedAgain

(* The callback of an option that was given is called, if it was not yet.  *)
LEMMA OptionServes ==
  ASSUME TypeInv, Serving, OptionCallback
  PROVE  Serving' \/ error' # "none"
<1> DEFINE o == Head(todo).arg
           outcome == run_callback(Opt(o), options[o])
<1>1. todo # <<>> /\ Head(todo).do = "callback" /\ UNCHANGED cli
  BY DEF OptionCallback, Doing, Quiet, input
<1>2. o \in DOMAIN Definition.options
  BY <1>1, TheTask DEF IsTask
<1>3. DOMAIN options = DOMAIN Definition.options /\ IsOptionState(options[o])
  BY <1>2 DEF TypeInv, OptionsAre
<1>4. \A p : Serves(Definition, Head(todo), p) => p = o
  BY <1>1 DEF Serves
<1>5. \/ Accept(o, outcome, <<>>)
      \/ Then(<<>>) /\ UNCHANGED options /\ Settled(options[o])
  BY DEF OptionCallback, Settled
<1>6. outcome.error = "none" => outcome.option.state = "callback_run"
  BY <1>3, RunSettles
<1> HIDE DEF o, outcome
<1>7. ASSUME error' = "none"
      PROVE  /\ todo' = <<>> \o Tail(todo) /\ Settled(options'[o])
             /\ \A p \in DOMAIN Definition.options : p = o \/ options'[p] = options[p]
  <2>1. CASE Accept(o, outcome, <<>>)
    <3>1. Then(<<>>) /\ outcome.error = "none" /\ options' = [options EXCEPT ![o] = outcome.option]
      BY <1>7, <2>1 DEF Accept, Raise, Throw, Hand
    <3>2. options'[o] = outcome.option
      BY <1>2, <1>3, <3>1
    <3> QED
      BY <1>3, <1>6, <3>1, <3>2 DEF Settled, Then
  <2>2. CASE Then(<<>>) /\ UNCHANGED options /\ Settled(options[o])
    BY <2>2 DEF Then
  <2> QED
    BY <1>5, <2>1, <2>2
<1>8. ASSUME error' = "none"
      PROVE  Serving'
  <2>1. \A a \in DOMAIN Definition.apps : \A p \in OptionsIn(Definition, a) : p \in DOMAIN Definition.options
    BY Now, OptionHeld DEF TypeInv
  <2>2. \A a \in DOMAIN Definition.apps : \A p \in OptionsIn(Definition, a) :
          /\ Settled(options[p]) => Settled(options'[p])
          /\ Serves(Definition, Head(todo), p) => Settled(options'[p])
    BY <1>4, <1>7, <1>8, <2>1
  <2>3. IsSequence(<<>>) /\ Range(<<>>) = {}
    BY EmptyFacts
  <2> QED
    BY <1>1, <1>7, <1>8, <2>2, <2>3, ServedAgain
<1> QED
  BY <1>8

(* Every option stays served, or one of them has thrown.                   *)
LEMMA ServingGoesOn ==
  ASSUME TypeInv, Tame, Serving, Quietly
  PROVE  Serving' \/ error' # "none"
<1>1. todo # <<>> /\ Head(todo).do \in ServingKinds
  <2>1. IsSequence(todo) /\ todo # <<>>
    BY SameParse DEF TypeInv, TasksAre
  <2> QED
    BY <2>1, TailFacts DEF Serving, AllServed
<1>2. CASE Judges
  <2>1. UNCHANGED <<cli, options>> /\ (todo' = Tail(todo) \/ error' # "none")
    BY <1>2, JudgesKeep DEF Kept
  <2>2. Head(todo).do \notin {"callback", "callbacks", "subcommand"}
    BY <1>2, JudgeTask
  <2> QED
    BY <1>1, <2>1, <2>2, ServedTask
<1>3. CASE RunCallbacks
  <2>1. UNCHANGED <<cli, options>> /\ todo' = <<>> \o Tail(todo) /\ Head(todo).do \in {"run", "run_final"}
    BY <1>3 DEF RunCallbacks, Then, Quiet, input, state, Doing
  <2>2. todo' = Tail(todo)
    BY <1>1, <2>1, TasksLeft, NothingFirst DEF TasksAre
  <2> QED
    BY <1>1, <2>1, <2>2, ServedTask
<1>4. CASE ProcessGroup
  <2>1. Head(todo).do = "group" /\ Of \in Apps
    BY <1>1, <1>4, TheTask DEF ProcessGroup, Doing
  <2>2. UNCHANGED <<cli, options>> /\ todo' = <<>> \o Tail(todo)
    BY <1>4, <2>1 DEF ProcessGroup, Then, Quiet, input, state, Tame
  <2>3. todo' = Tail(todo)
    BY <1>1, <2>2, TasksLeft, NothingFirst DEF TasksAre
  <2> QED
    BY <1>1, <2>1, <2>2, <2>3, ServedTask
<1>5. process_callbacks \/ ProcessSubcommand \/ OptionCallback => Serving' \/ error' # "none"
  BY CallbacksServe, SubcommandServes, OptionServes
<1> QED
  BY <1>1, <1>2, <1>3, <1>4, <1>5, ServingActions

(* A file that is missing leaves the callbacks ahead.                      *)
LEMMA MissingFileOpens ==
  ASSUME cli \in DOMAIN Interfaces, MissingFile
  PROVE  CallbacksAhead(Definition, todo')
<1> DEFINE s == <<Task("callbacks", Root), Task("help", Root), Task("file_error", Root), Return>>
<1>1. Root = Definition.root
  BY Now
<1>2. /\ Len(s) = 4 /\ s[1] = Task("callbacks", Root) /\ s[2] = Task("help", Root)
      /\ s[3] = Task("file_error", Root) /\ s[4] = Task("return", Root)
  BY DEF Return
<1>3. todo' = s
  BY DEF MissingFile
<1> HIDE DEF s
<1>4. 1 \in 1 .. Len(s) /\ 1 + 1 .. Len(s) = {2, 3, 4}
  BY <1>2
<1>5. OpensCallbacks(Definition, s[1])
  BY <1>1, <1>2 DEF OpensCallbacks, Task
<1>6. \A i \in {2, 3, 4} : s[i].do \in ClosingKinds
  BY <1>2 DEF ClosingKinds, LateKinds, Task
<1> QED
  BY <1>3, <1>4, <1>5, <1>6 DEF CallbacksAhead

(* The callbacks stay ahead as long as they are not next.                  *)
LEMMA AheadStays ==
  ASSUME TypeInv, CallbacksAhead(Definition, todo), Moved, todo # <<>>,
         CallbacksAhead(Definition, Tail(todo)) \/ IsRootFrame(Definition, Head(todo))
  PROVE  CallbacksAhead(Definition, todo') \/ error' # "none"
<1>1. /\ IsSequence(todo) /\ IsSequence(Tail(todo)) /\ cli \in DOMAIN Interfaces
      /\ CallbacksAhead(Definition, Tail(todo)) \/ AllClosing(Tail(todo))
  BY TailFacts, CallbacksAheadHead DEF TypeInv, TasksAre
<1>2. ASSUME NEW tasks, TasksAre(Definition, tasks), Succeeds(tasks), todo' = tasks \o Tail(todo)
      PROVE  CallbacksAhead(Definition, todo')
  <2>1. IsSequence(tasks)
    BY <1>2 DEF TasksAre
  <2>2. CASE CallbacksAhead(Definition, Tail(todo))
    BY <1>1, <1>2, <2>1, <2>2, CallbacksFollow
  <2>3. CASE AllClosing(Tail(todo)) /\ IsRootFrame(Definition, Head(todo))
    <3>1. CallbacksAhead(Definition, tasks)
      BY <1>1, <1>2, <2>1, <2>3, EndingOpens DEF Succeeds
    <3> QED
      BY <1>1, <1>2, <2>1, <2>3, <3>1, CallbacksFollow
  <2> QED
    BY <1>1, <2>2, <2>3
<1>3. ASSUME NEW tasks, TasksAre(Definition, tasks), todo' = tasks \o todo
      PROVE  CallbacksAhead(Definition, todo')
  BY <1>1, <1>3, CallbacksFollow DEF TasksAre
<1>4. MissingFile => CallbacksAhead(Definition, todo')
  BY <1>1, MissingFileOpens
<1> QED
  BY <1>2, <1>3, <1>4 DEF Moved

(* The callbacks stay ahead, or are called.                                *)
LEMMA AheadGoesOn ==
  ASSUME TypeInv, Tame, CallbacksAhead(Definition, todo), Quietly
  PROVE  CallbacksAhead(Definition, todo') \/ Serving' \/ error' # "none"
<1>1. /\ IsSequence(todo) /\ todo # <<>>
      /\ \/ CallbacksAhead(Definition, Tail(todo))
         \/ OpensCallbacks(Definition, Head(todo)) /\ AllClosing(Tail(todo))
  BY CallbacksAheadHead DEF TypeInv, TasksAre
<1>2. CASE Judges
  <2>1. Head(todo).do \in {"help", "requirements", "extras", "file_error"}
    BY <1>2, JudgeTask
  <2>2. ~OpensCallbacks(Definition, Head(todo))
    BY <2>1 DEF OpensCallbacks, IsRootFrame, Frames
  <2> QED
    BY <1>1, <1>2, <2>2, JudgesKeep
<1>3. CASE ~Judges /\ (CallbacksAhead(Definition, Tail(todo)) \/ IsRootFrame(Definition, Head(todo)))
  BY <1>1, <1>3, QuietlyMoves, AheadStays
<1>4. CASE AllClosing(Tail(todo)) /\ Head(todo).do = "callbacks" /\ Head(todo).of = Definition.root
  BY <1>1, <1>4, OpenIsServing, ServingGoesOn
<1> QED
  BY <1>1, <1>2, <1>3, <1>4 DEF OpensCallbacks

(* A parse begins with the callbacks ahead, or has thrown.                 *)
LEMMA ParseOpens ==
  ASSUME TypeInv, parse
  PROVE  CallbacksAhead(Definition, todo') \/ error' # "none"
<1> DEFINE s == <<Task("parse", Root), Return>>
<1>1. Root = Definition.root
  BY Now DEF TypeInv
<1>2. Len(s) = 2 /\ s[1] = Task("parse", Root) /\ s[2] = Task("return", Root)
  BY DEF Return
<1>3. todo' = s \/ error' # "none"
  BY ParseMoves
<1> HIDE DEF s
<1>4. 1 \in 1 .. Len(s) /\ 1 + 1 .. Len(s) = {2}
  BY <1>2
<1>5. OpensCallbacks(Definition, s[1]) /\ s[2].do \in ClosingKinds
  BY <1>1, <1>2 DEF OpensCallbacks, IsRootFrame, Frames, ClosingKinds, LateKinds, Task
<1> QED
  BY <1>3, <1>4, <1>5 DEF CallbacksAhead

(* Every option that was given is served, or still will be.                *)
LEMMA ServedFollow ==
  ASSUME TypeInv, Tame, Stages, ServedStages, [Next]_vars
  PROVE  ServedStages'
<1>1. CASE parse
  <2>1. Definition' = Definition
    BY <1>1 DEF parse, Definition
  <2> QED
    BY <1>1, <2>1, ParseOpens DEF ServedStages
<1>2. CASE Returned
  BY <1>2 DEF Returned, ServedStages
<1>3. CASE UNCHANGED vars
  <2>1. UNCHANGED <<cli, todo, error, options>> /\ Definition' = Definition
    BY <1>3 DEF vars, parsing, Definition
  <2> QED
    BY <2>1 DEF ServedStages, Serving
<1>4. CASE Quietly
  <2>1. todo # <<>> /\ Definition' = Definition
    BY <1>4, SameParse, QuietlyMoves, JudgesKeep DEF Kept, Definition
  <2>2. CASE error # "none"
    <3>1. HasThrown
      BY <2>1, <2>2 DEF Stages, Unjudged, JudgedOnce
    <3>2. Head(todo).do = "return"
      BY <3>1 DEF HasThrown, Return, Task
    <3> QED
      BY <1>4, <3>2, NotJudging, JudgeTask
  <2>3. CASE CallbacksAhead(Definition, todo)
    BY <1>4, <2>1, <2>3, AheadGoesOn DEF ServedStages
  <2>4. CASE Serving
    BY <1>4, <2>4, ServingGoesOn DEF ServedStages
  <2> QED
    BY <2>1, <2>2, <2>3, <2>4 DEF ServedStages
<1> QED
  BY <1>1, <1>2, <1>3, <1>4 DEF Next, Step, Quietly

(* At the end nothing leads to an option any more: what was given is what  *)
(* its callback was handed.                                                *)
LEMMA AllStored ==
  ASSUME TypeInv, Stages, TakenInv, ServedStages, Success, NEW a \in DOMAIN Definition.apps,
         NEW o \in OptionsIn(Definition, a), IsGiven(o)
  PROVE  taken[o] # <<>> /\ Last(taken[o]) = Sent(options[o])
<1>1. todo = <<Return>> /\ error = "none"
  <2>1. todo # <<>> /\ Head(todo).do = "return" /\ error = "none" /\ IsSequence(todo)
    BY DEF Success, Done, Doing, TypeInv, TasksAre
  <2>2. \A e : IsSequence(e) /\ EndsWith(Definition, todo, e) => todo = e
    BY <2>1, EndsHead DEF Inner
  <2>3. ~Unjudged
    BY <2>1, <2>2, LastTasksAre, FileStackIs, FrameStackIs
       DEF Unjudged, AtRootFrame, BeforeRequirements, BeforeFileError, IsRootFrame, Frames, Task
  <2> QED
    BY <2>1, <2>3 DEF Stages, HasThrown, JudgedOnce, Judged, Task
<1>2. /\ todo # <<>> /\ IsSequence(todo) /\ Len(todo) = 1 /\ todo[1] = Return /\ Range(todo) = {Return}
      /\ Return.do = "return"
  BY <1>1, OneFacts DEF Return, Task
<1>3. ~CallbacksAhead(Definition, todo)
  BY <1>2 DEF CallbacksAhead, OpensCallbacks, IsRootFrame, Frames
<1>4. \A p : ~Serves(Definition, Return, p)
  BY <1>2 DEF Serves
<1>5. Settled(options[o])
  BY <1>1, <1>2, <1>3, <1>4 DEF ServedStages, Serving, AllServed
<1>6. options[o].state = "callback_run" /\ o \in DOMAIN Definition.options
  BY <1>5, OptionHeld, Now DEF Settled, IsGiven, TypeInv
<1> QED
  BY <1>1, <1>6 DEF TakenInv, Stored

ServedInv == Tame => ServedStages

(***************************************************************************)
(* Whatever way a value came in, by the line, a file or the environment:   *)
(* when a parse of a program without immediate callbacks succeeds, the     *)
(* callback of every option given was last handed what the option holds,   *)
(* so the variable bound to it has the value the option shows              *)
(* (_process_callbacks, run_callback).                                     *)
(***************************************************************************)
THEOREM StoredIsShownWhenTame == Spec => [](Tame => StoredIsShown)
<1> DEFINE Inv == TypeInv /\ Parsing /\ Stages /\ CountsInv /\ TakenInv /\ ServedInv
<1>1. Init => Inv
  <2>1. Init => todo = <<>>
    BY DEF Init
  <2> QED
    BY <2>1, InitIsTyped, CountsBegin, TakenBegins DEF ServedInv, ServedStages
<1>2. Inv /\ [Next]_vars => Inv'
  <2> SUFFICES ASSUME Inv, [Next]_vars PROVE Inv'
    OBVIOUS
  <2>1. TypeInv' /\ Parsing' /\ UNCHANGED cli
    BY StepIsTyped
  <2>2. Stages' /\ CountsInv' /\ TakenInv'
    BY StagesFollow, CountsFollow, TakenFollows
  <2>3. Tame' => Tame
    BY <2>1 DEF Tame, Apps, App
  <2>4. ServedInv'
    BY <2>3, ServedFollow DEF ServedInv
  <2> QED
    BY <2>1, <2>2, <2>4
<1>3. Inv => (Tame => StoredIsShown)
  <2> SUFFICES ASSUME Inv, Tame, Success, NEW o \in DOMAIN options, IsGiven(o),
                      NEW a \in DOMAIN apps, o \in Range(App(a).options)
               PROVE  taken[o] # <<>> /\ Last(taken[o]) = Sent(options[o])
    BY DEF StoredIsShown
  <2>1. a \in DOMAIN Definition.apps /\ o \in OptionsIn(Definition, a)
    BY Now DEF TypeInv, AppsAre, OptionsIn
  <2> QED
    BY <2>1, AllStored DEF ServedInv
<1> QED
  BY <1>1, <1>2, <1>3, PTL DEF Spec
=============================================================================
