------------------------ MODULE WorkflowReviewProofs -------------------------
(***************************************************************************)
(* PolicyExact for every workflow whose steps are recovered.  A set of steps *)
(* found corresponds to a set of places in the document, by the number each *)
(* place has in the order written; so the policy, silent when each stage is *)
(* one step and these are in order, is silent on what the document says.    *)
(***************************************************************************)
EXTENDS WorkflowReview, FiniteSetTheorems, SequenceTheorems, TLAPS

\* A document is a sequence of jobs, a job a sequence of steps.
IsDocument == \E S : document \in Seq(Seq(S))

\* How many steps it has.
N == Cardinality(Places)

LEMMA PlaceTyped ==
    ASSUME IsDocument, NEW p \in Places
    PROVE  p[1] \in Nat /\ p[2] \in Nat /\ p = <<p[1], p[2]>>
<1>1. PICK S : document \in Seq(Seq(S))
  BY DEF IsDocument
<1>2. PICK j \in DOMAIN document : p \in {j} \X DOMAIN document[j]
  BY DEF Places
<1>3. document[j] \in Seq(S) /\ j \in Nat
  BY <1>1, <1>2
<1> QED BY <1>2, <1>3

LEMMA PlacesFinite ==
    ASSUME IsDocument
    PROVE  IsFiniteSet(Places) /\ N \in Nat
<1>1. PICK S : document \in Seq(Seq(S))
  BY DEF IsDocument
<1> DEFINE Of == [j \in DOMAIN document |-> {j} \X DOMAIN document[j]]
           T == {Of[j] : j \in DOMAIN document}
<1>2. IsFiniteSet(DOMAIN document)
  BY <1>1, FS_Interval
<1>3. IsFiniteSet(T)
  <2>1. Of \in Surjection(DOMAIN document, T)
    BY DEF Surjection
  <2> HIDE DEF Of, T
  <2> QED BY <1>2, <2>1, FS_Surjection
<1>4. ASSUME NEW j \in DOMAIN document PROVE IsFiniteSet(Of[j])
  <2>1. document[j] \in Seq(S)
    BY <1>1
  <2>2. IsFiniteSet(DOMAIN document[j])
    BY <2>1, FS_Interval
  <2>3. IsFiniteSet({j} \X DOMAIN document[j])
    BY <2>2, FS_Singleton, FS_Product
  <2> QED BY <2>3
<1>5. Places = UNION T
  BY DEF Places
<1>6. IsFiniteSet(UNION T)
  <2>1. \A U \in T : IsFiniteSet(U)
    BY <1>4
  <2> HIDE DEF T
  <2> QED BY <1>3, <2>1, FS_UNION
<1> QED BY <1>5, <1>6, FS_CardinalityType DEF N

LEMMA WrittenOrder ==
    ASSUME IsDocument, NEW p \in Places, NEW q \in Places, NEW r \in Places
    PROVE  /\ ~Precedes(p, p)
           /\ Precedes(p, q) /\ Precedes(q, r) => Precedes(p, r)
           /\ p = q \/ Precedes(p, q) \/ Precedes(q, p)
BY PlaceTyped DEF Precedes

LEMMA SameJob ==
    ASSUME IsDocument, NEW p \in Places, NEW q \in Places, p[1] = q[1]
    PROVE  Precedes(p, q) <=> p[2] < q[2]
<1>1. p[1] \in Nat /\ q[1] \in Nat
  BY PlaceTyped
<1> QED BY <1>1 DEF Precedes

\* Later places rank higher, among the numbers of the steps.
LEMMA RankIncreases ==
    ASSUME IsDocument, NEW p \in Places
    PROVE  /\ Rank(p) \in 1 .. N
           /\ \A q \in Places : Precedes(p, q) => Rank(p) < Rank(q)
<1> DEFINE Before(q) == {o \in Places : Precedes(o, q)}
<1>1. \A q \in Places : IsFiniteSet(Before(q)) /\ Cardinality(Before(q)) \in Nat
  BY PlacesFinite, FS_Subset, FS_CardinalityType
<1>2. \A q : Rank(q) = Cardinality(Before(q)) + 1
  BY DEF Rank
<1> HIDE DEF Before
<1>3. Rank(p) <= N
  <2>1. Before(p) \in SUBSET (Places \ {p})
    BY WrittenOrder DEF Before
  <2>2. IsFiniteSet(Places \ {p}) /\ Cardinality(Places \ {p}) = N - 1
    BY PlacesFinite, FS_RemoveElement DEF N
  <2>3. Cardinality(Before(p)) <= N - 1
    BY <2>1, <2>2, FS_Subset
  <2> QED BY <1>1, <1>2, <2>3, PlacesFinite
<1>4. ASSUME NEW q \in Places, Precedes(p, q) PROVE Rank(p) < Rank(q)
  <2>1. Before(p) \union {p} \in SUBSET Before(q) /\ p \notin Before(p)
    BY <1>4, WrittenOrder DEF Before
  <2>2. Cardinality(Before(p) \union {p}) = Cardinality(Before(p)) + 1
    BY <1>1, <2>1, FS_AddElement
  <2>3. Cardinality(Before(p) \union {p}) <= Cardinality(Before(q))
    BY <1>1, <2>1, FS_Subset
  <2> QED BY <1>1, <1>2, <2>2, <2>3
<1>5. Rank(p) \in Nat /\ Rank(p) >= 1
  BY <1>1, <1>2
<1> QED BY <1>3, <1>4, <1>5, PlacesFinite

\* A place for every number, and no more than one.
LEMMA RankOnto ==
    ASSUME IsDocument
    PROVE  /\ \A p, q \in Places : Rank(p) = Rank(q) => p = q
           /\ \A n \in 1 .. N : \E p \in Places : Rank(p) = n
<1> DEFINE rank == [p \in Places |-> Rank(p)]
<1>1. ASSUME NEW p \in Places, NEW q \in Places, Rank(p) = Rank(q) PROVE p = q
  <2>1. Rank(p) \in Int /\ Rank(q) \in Int
    BY RankIncreases
  <2>2. ~Precedes(p, q) /\ ~Precedes(q, p)
    BY <1>1, <2>1, RankIncreases
  <2> QED BY <2>2, WrittenOrder
<1>2. rank \in Injection(Places, 1 .. N)
  BY <1>1, RankIncreases DEF Injection, IsInjective
<1>3. IsFiniteSet(1 .. N) /\ Cardinality(1 .. N) = N
  BY PlacesFinite, FS_Interval
<1>4. rank \in Surjection(Places, 1 .. N)
  <2> HIDE DEF rank
  <2> QED BY <1>2, <1>3, FS_Injection DEF N
<1>5. ASSUME NEW n \in 1 .. N PROVE \E p \in Places : Rank(p) = n
  BY <1>4 DEF Surjection
<1> QED BY <1>1, <1>5

\* A set of places and the set of their numbers.
Numbered(A, B) ==
    /\ A \subseteq Places /\ B \subseteq 1 .. N
    /\ \A p \in Places : Rank(p) \in B <=> p \in A

LEMMA RankedSet ==
    ASSUME IsDocument, NEW STATE A, NEW STATE B, Numbered(A, B)
    PROVE  \A p \in Places : A = {p} <=> B = {Rank(p)}
<1> USE DEF Numbered
<1>1. ASSUME NEW p \in Places PROVE A = {p} <=> B = {Rank(p)}
  <2>1. ASSUME A = {p}, NEW n \in B PROVE n = Rank(p)
    BY <2>1, RankOnto
  <2>2. ASSUME B = {Rank(p)}, NEW q \in A PROVE q = p
    BY <2>2, RankOnto
  <2>3. A = {p} => Rank(p) \in B
    OBVIOUS
  <2>4. B = {Rank(p)} => p \in A
    OBVIOUS
  <2> QED BY <2>1, <2>2, <2>3, <2>4
<1> QED BY <1>1

-----------------------------------------------------------------------------
(* What the policy says of the steps it is given.                          *)

LEMMA SetupFine ==
    ASSUME NEW step
    PROVE  SetupErrors(step) = {} <=>
             /\ "if" \notin DOMAIN step.fields
             /\ Field(step.with_fields, "go-version-file") = "go.mod"
             /\ "go-version" \notin DOMAIN step.with_fields
             /\ Field(step.with_fields, "cache") \in FalseSpellings
BY DEF SetupErrors

LEMMA OnlyOne ==
    ASSUME NEW n \in Int
    PROVE  Cardinality({n}) = 1 /\ Min({n}) = n
BY FS_Singleton DEF Min

LEMMA FourAreFinite ==
    ASSUME NEW a, NEW b, NEW c, NEW d
    PROVE  IsFiniteSet({a, b, c, d})
<1>1. IsFiniteSet({a} \union {b})
  BY FS_Singleton, FS_Union
<1>2. IsFiniteSet({c} \union {d})
  BY FS_Singleton, FS_Union
<1>3. IsFiniteSet(({a} \union {b}) \union ({c} \union {d}))
  BY <1>1, <1>2, FS_Union
<1>4. {a, b, c, d} = ({a} \union {b}) \union ({c} \union {d})
  OBVIOUS
<1> QED BY <1>3, <1>4

\* The policy is silent when each stage is one step, and these are in order.
LEMMA PolicySilent ==
    ASSUME NEW steps, NEW size \in Nat, DOMAIN steps = 1 .. size
    PROVE  check_ci_go_policy(steps) = {} <=>
             \E preflight, setup, version, gate \in 1 .. size :
                /\ UnconditionalRuns(steps, {Said(PREFLIGHT)}) = {preflight}
                /\ Setups(steps) = {setup}
                /\ UnconditionalRuns(steps, EXPECTED_GOVERSION_SCRIPTS) = {version}
                /\ UnconditionalRuns(steps, {Said(GATE)}) = {gate}
                /\ Field(steps[setup].fields, "uses") \in ImmutableReferences
                /\ SetupErrors(steps[setup]) = {}
                /\ \A n \in {setup, version, gate} :
                     steps[n].steps_block = steps[preflight].steps_block
                /\ steps[preflight].position < steps[setup].position
                /\ steps[setup].position < steps[version].position
                /\ steps[version].position < steps[gate].position
<1> DEFINE P == UnconditionalRuns(steps, {Said(PREFLIGHT)})
           S == Setups(steps)
           V == UnconditionalRuns(steps, EXPECTED_GOVERSION_SCRIPTS)
           G == UnconditionalRuns(steps, {Said(GATE)})
           stages == <<P, S, V, G>>
           complete == \A k \in 1 .. 4 : Cardinality(stages[k]) = 1
           stage(k) == steps[Min(stages[k])]
           uses(n) == Field(steps[n].fields, "uses") \in ImmutableReferences
           pinned == \E n \in S : uses(n) /\ \A m \in S : uses(m)
           together == Cardinality({stage(k).steps_block : k \in 1 .. 4}) = 1
           ordered == \A k \in 1 .. 3 : stage(k).position < stage(k + 1).position
           E1 == Single("setup count", S)
           E2 == IF pinned THEN {} ELSE {"setup reference"}
           E3 == IF Cardinality(S) = 1 THEN SetupErrors(stage(2)) ELSE {}
           E4 == Single("preflight count", P)
           E5 == Single("version count", V)
           E6 == Single("gate count", G)
           E7 == IF complete /\ Cardinality({stage(k).steps_block : k \in 1 .. 4}) # 1
                 THEN {"one block"} ELSE {}
           E8 == IF complete /\ ordered THEN {} ELSE {"order"}
<1>1. check_ci_go_policy(steps) = {} <=>
        E1 = {} /\ E2 = {} /\ E3 = {} /\ E4 = {} /\ E5 = {} /\ E6 = {} /\ E7 = {} /\ E8 = {}
  <2>1. check_ci_go_policy(steps) =
          E1 \union E2 \union E3 \union E4 \union E5 \union E6 \union E7 \union E8
    BY Zenon DEF check_ci_go_policy
  <2> HIDE DEF E1, E2, E3, E4, E5, E6, E7, E8
  <2> QED BY <2>1
<1>2. /\ stages[1] = P /\ stages[2] = S /\ stages[3] = V /\ stages[4] = G
  OBVIOUS
<1>3. P \subseteq 1 .. size /\ S \subseteq 1 .. size /\ V \subseteq 1 .. size /\ G \subseteq 1 .. size
  BY DEF UnconditionalRuns, Setups
<1> HIDE DEF P, S, V, G, stages
<1>4. complete <=> /\ Cardinality(P) = 1 /\ Cardinality(S) = 1
                   /\ Cardinality(V) = 1 /\ Cardinality(G) = 1
  <2>1. 1 .. 4 = {1, 2, 3, 4}
    OBVIOUS
  <2> QED BY <1>2, <2>1
<1>5. ASSUME NEW B, B \subseteq 1 .. size, Cardinality(B) = 1
      PROVE  \E n \in 1 .. size : B = {n}
  <2>1. IsFiniteSet(1 .. size)
    BY FS_Interval
  <2>2. IsFiniteSet(B)
    BY <1>5, <2>1, FS_Subset
  <2>3. \E n : B = {n}
    BY <1>5, <2>2, FS_Singleton
  <2> QED BY <1>5, <2>3
<1>6. check_ci_go_policy(steps) = {} => complete
  <2>1. E1 = {} /\ E4 = {} /\ E5 = {} /\ E6 = {} => complete
    BY <1>4 DEF Single
  <2> QED BY <1>1, <2>1
<1>7. ASSUME NEW preflight \in 1 .. size, NEW setup \in 1 .. size, NEW version \in 1 .. size,
             NEW gate \in 1 .. size,
             P = {preflight}, S = {setup}, V = {version}, G = {gate}
      PROVE  check_ci_go_policy(steps) = {} <=>
                /\ uses(setup) /\ SetupErrors(steps[setup]) = {}
                /\ \A n \in {setup, version, gate} :
                     steps[n].steps_block = steps[preflight].steps_block
                /\ steps[preflight].position < steps[setup].position
                /\ steps[setup].position < steps[version].position
                /\ steps[version].position < steps[gate].position
  <2>1. /\ stage(1) = steps[preflight] /\ stage(2) = steps[setup]
        /\ stage(3) = steps[version] /\ stage(4) = steps[gate]
    <3>1. Min(P) = preflight /\ Min(S) = setup /\ Min(V) = version /\ Min(G) = gate
      <4>1. preflight \in Int /\ setup \in Int /\ version \in Int /\ gate \in Int
        OBVIOUS
      <4>2. /\ Min({preflight}) = preflight /\ Min({setup}) = setup
            /\ Min({version}) = version /\ Min({gate}) = gate
        BY <4>1, OnlyOne
      <4> QED BY <1>7, <4>2, Zenon
    <3> QED BY <1>2, <3>1
  <2>2. complete /\ Cardinality(S) = 1
    BY <1>4, <1>7, OnlyOne
  <2>3. pinned <=> uses(setup)
    BY <1>7
  <2>4. together <=> \A n \in {setup, version, gate} :
                       steps[n].steps_block = steps[preflight].steps_block
    <3> DEFINE blocks == {stage(k).steps_block : k \in 1 .. 4}
    <3>1. blocks = {steps[preflight].steps_block, steps[setup].steps_block,
                    steps[version].steps_block, steps[gate].steps_block}
      <4>1. 1 .. 4 = {1, 2, 3, 4}
        OBVIOUS
      <4>2. blocks = {stage(k).steps_block : k \in {1, 2, 3, 4}}
        BY <4>1
      <4> HIDE DEF stage
      <4> QED BY <2>1, <4>2
    <3>2. IsFiniteSet(blocks)
      <4>1. IsFiniteSet({steps[preflight].steps_block, steps[setup].steps_block,
                         steps[version].steps_block, steps[gate].steps_block})
        BY FourAreFinite
      <4> HIDE DEF blocks
      <4> QED BY <3>1, <4>1
    <3>3. Cardinality(blocks) = 1 <=> \E b : blocks = {b}
      <4> HIDE DEF blocks
      <4> QED BY <3>2, FS_Singleton
    <3> QED BY <3>1, <3>3
  <2>5. ordered <=> /\ steps[preflight].position < steps[setup].position
                    /\ steps[setup].position < steps[version].position
                    /\ steps[version].position < steps[gate].position
    <3>1. 1 .. 3 = {1, 2, 3}
      OBVIOUS
    <3> HIDE DEF stage
    <3> QED BY <2>1, <3>1
  <2>6. /\ E1 = {} /\ E4 = {} /\ E5 = {} /\ E6 = {}
        /\ E3 = SetupErrors(steps[setup])
    <3>1. E1 = {} /\ E4 = {} /\ E5 = {} /\ E6 = {}
      BY <1>4, <2>2 DEF Single
    <3>2. E3 = SetupErrors(steps[setup])
      BY <2>1, <2>2
    <3> QED BY <3>1, <3>2
  <2>7. /\ E2 = {} <=> pinned
        /\ E7 = {} <=> together
        /\ E8 = {} <=> ordered
    BY <2>2
  <2> HIDE DEF E1, E2, E3, E4, E5, E6, E7, E8, pinned, together, ordered
  <2> QED BY <1>1, <2>3, <2>4, <2>5, <2>6, <2>7
<1>8. ASSUME check_ci_go_policy(steps) = {}
      PROVE  \E preflight, setup, version, gate \in 1 .. size :
                P = {preflight} /\ S = {setup} /\ V = {version} /\ G = {gate}
  <2>1. complete
    BY <1>6, <1>8
  <2>2. /\ Cardinality(P) = 1 /\ Cardinality(S) = 1
        /\ Cardinality(V) = 1 /\ Cardinality(G) = 1
    BY <1>4, <2>1
  <2>3. /\ \E n \in 1 .. size : P = {n}
        /\ \E n \in 1 .. size : S = {n}
        /\ \E n \in 1 .. size : V = {n}
        /\ \E n \in 1 .. size : G = {n}
    BY <1>3, <1>5, <2>2
  <2> QED BY <2>3
<1>9. check_ci_go_policy(steps) = {} <=>
        \E preflight, setup, version, gate \in 1 .. size :
           /\ P = {preflight} /\ S = {setup} /\ V = {version} /\ G = {gate}
           /\ uses(setup) /\ SetupErrors(steps[setup]) = {}
           /\ \A n \in {setup, version, gate} :
                steps[n].steps_block = steps[preflight].steps_block
           /\ steps[preflight].position < steps[setup].position
           /\ steps[setup].position < steps[version].position
           /\ steps[version].position < steps[gate].position
  <2> DEFINE silent == check_ci_go_policy(steps) = {}
  <2>1. silent => \E preflight, setup, version, gate \in 1 .. size :
                P = {preflight} /\ S = {setup} /\ V = {version} /\ G = {gate}
    BY <1>8
  <2> HIDE DEF silent
  <2>2. ASSUME NEW preflight \in 1 .. size, NEW setup \in 1 .. size, NEW version \in 1 .. size,
             NEW gate \in 1 .. size,
             P = {preflight}, S = {setup}, V = {version}, G = {gate}
        PROVE  silent <=>
                /\ uses(setup) /\ SetupErrors(steps[setup]) = {}
                /\ \A n \in {setup, version, gate} :
                     steps[n].steps_block = steps[preflight].steps_block
                /\ steps[preflight].position < steps[setup].position
                /\ steps[setup].position < steps[version].position
                /\ steps[version].position < steps[gate].position
    BY <1>7, <2>2 DEF silent
  <2> DEFINE rest(preflight, setup, version, gate) ==
               /\ uses(setup) /\ SetupErrors(steps[setup]) = {}
               /\ \A n \in {setup, version, gate} :
                    steps[n].steps_block = steps[preflight].steps_block
               /\ steps[preflight].position < steps[setup].position
               /\ steps[setup].position < steps[version].position
               /\ steps[version].position < steps[gate].position
  <2>3. silent <=> \E preflight, setup, version, gate \in 1 .. size :
                     /\ P = {preflight} /\ S = {setup} /\ V = {version} /\ G = {gate}
                     /\ rest(preflight, setup, version, gate)
    <3>1. \A preflight, setup, version, gate \in 1 .. size :
            P = {preflight} /\ S = {setup} /\ V = {version} /\ G = {gate} =>
              (silent <=> rest(preflight, setup, version, gate))
      BY <2>2
    <3> HIDE DEF rest
    <3> QED BY <2>1, <3>1
  <2> QED BY <2>3 DEF silent
<1> QED BY <1>9 DEF P, S, V, G

-----------------------------------------------------------------------------
(* From the steps found to the places they were found for.                 *)

LEMMA WhatIsRead ==
    ASSUME NEW step, NEW key
    PROVE  /\ key \in DOMAIN Meaning(step).fields <=> key \in Names(step)
           /\ Field(Meaning(step).fields, key) =
                IF key \in Names(step) THEN The(step, key).value.text ELSE ""
           /\ Meaning(step).with_fields = Options(step)
           /\ Meaning(step).run_script = Command(step)
BY DEF Meaning, Field

LEMMA StepRead ==
    ASSUME StepsRecovered, NEW p \in Places
    PROVE  /\ Steps[Rank(p)].fields = Meaning(StepAt(p)).fields
           /\ Steps[Rank(p)].with_fields = Options(StepAt(p))
           /\ Steps[Rank(p)].run_script = Command(StepAt(p))
<1>1. PICK found, step : found = Steps[Rank(p)] /\ step = StepAt(p)
  OBVIOUS
<1>2. Read(found) = Meaning(step)
  BY <1>1 DEF StepsRecovered
<1>3. /\ Read(found).fields = found.fields
      /\ Read(found).with_fields = found.with_fields
      /\ Read(found).run_script = found.run_script
  BY DEF Read
<1> QED BY <1>1, <1>2, <1>3, WhatIsRead

\* The sets of the policy, translated.
LEMMA SetupsFound ==
    ASSUME StepsRecovered, IsDocument
    PROVE  Numbered({p \in Places : Invokes(StepAt(p))}, Setups(Steps))
<1>1. DOMAIN Steps = 1 .. N
  BY DEF StepsRecovered, N
<1>2. ASSUME NEW p \in Places
      PROVE  Rank(p) \in Setups(Steps) <=> Invokes(StepAt(p))
  BY <1>1, StepRead, RankIncreases, WhatIsRead, SetupAssumption
  DEF Setups, Invokes
<1> QED BY <1>1, <1>2 DEF Setups, Numbered

LEMMA RunsFound ==
    ASSUME StepsRecovered, IsDocument, NEW scripts
    PROVE  Numbered(Unconditional(scripts), UnconditionalRuns(Steps, scripts))
<1>1. DOMAIN Steps = 1 .. N
  BY DEF StepsRecovered, N
<1>2. ASSUME NEW p \in Places
      PROVE  Rank(p) \in UnconditionalRuns(Steps, scripts)
             <=> p \in Unconditional(scripts)
  BY <1>1, StepRead, RankIncreases, WhatIsRead
  DEF UnconditionalRuns, Unconditional, Runs, Conditional
<1> QED BY <1>1, <1>2 DEF UnconditionalRuns, Unconditional, Numbered

LEMMA SetupReviewed ==
    ASSUME StepsRecovered, NEW p \in Places, Invokes(StepAt(p))
    PROVE  /\ Field(Steps[Rank(p)].fields, "uses") \in ImmutableReferences
           /\ SetupErrors(Steps[Rank(p)]) = {}
           <=> SetupAsReviewed(StepAt(p))
<1> DEFINE step == StepAt(p)
           found == Steps[Rank(p)]
<1>1. Field(found.fields, "uses") = The(step, "uses").value.text
  BY StepRead, WhatIsRead DEF Invokes
<1>2. "if" \in DOMAIN found.fields <=> Conditional(step)
  BY StepRead, WhatIsRead DEF Conditional
<1>3. /\ Field(found.with_fields, "go-version-file") = Option(step, "go-version-file")
      /\ Field(found.with_fields, "cache") = Option(step, "cache")
      /\ found.with_fields = Options(step)
  BY StepRead DEF Option, Field
<1> HIDE DEF step, found
<1>4. SetupErrors(found) = {} <=>
             /\ "if" \notin DOMAIN found.fields
             /\ Field(found.with_fields, "go-version-file") = "go.mod"
             /\ "go-version" \notin DOMAIN found.with_fields
             /\ Field(found.with_fields, "cache") \in FalseSpellings
  BY SetupFine
<1>5. Field(found.fields, "uses") \in ImmutableReferences /\ SetupErrors(found) = {}
      <=> SetupAsReviewed(step)
  BY <1>1, <1>2, <1>3, <1>4 DEF SetupAsReviewed
<1> QED BY <1>5 DEF step, found

\* A document whose steps were recovered is judged for what it says.
LEMMA RecoveredIsExact ==
    ASSUME StepsRecovered, IsDocument
    PROVE  PolicyExact
<1> DEFINE steps == Steps
           P == UnconditionalRuns(steps, {Said(PREFLIGHT)})
           S == Setups(steps)
           V == UnconditionalRuns(steps, EXPECTED_GOVERSION_SCRIPTS)
           G == UnconditionalRuns(steps, {Said(GATE)})
           preflights == Unconditional({Said(PREFLIGHT)})
           setups == {p \in Places : Invokes(StepAt(p))}
           versions == Unconditional(EXPECTED_GOVERSION_SCRIPTS)
           gates == Unconditional({Said(GATE)})
           fine(n) == /\ Field(steps[n].fields, "uses") \in ImmutableReferences
                      /\ SetupErrors(steps[n]) = {}
           reviewed(p) == SetupAsReviewed(StepAt(p))
           at(n) == steps[n].position
           block(n) == steps[n].steps_block
<1>1. DOMAIN steps = 1 .. N /\ N \in Nat
  BY PlacesFinite DEF StepsRecovered, N
<1>2. \A p \in Places : /\ P = {Rank(p)} <=> preflights = {p}
                        /\ S = {Rank(p)} <=> setups = {p}
                        /\ V = {Rank(p)} <=> versions = {p}
                        /\ G = {Rank(p)} <=> gates = {p}
  <2>1. /\ Numbered(preflights, P) /\ Numbered(setups, S)
        /\ Numbered(versions, V) /\ Numbered(gates, G)
    BY RunsFound, SetupsFound
  <2> HIDE DEF P, S, V, G, preflights, setups, versions, gates
  <2> QED BY <2>1, RankedSet
<1>3. \A p, q \in Places :
        /\ at(Rank(p)) < at(Rank(q)) <=> Precedes(p, q)
        /\ block(Rank(p)) = block(Rank(q)) <=> p[1] = q[1]
  BY DEF StepsRecovered
<1>4. \A p \in setups : fine(Rank(p)) <=> reviewed(p)
  BY SetupReviewed
<1>5. /\ \A p \in Places : Rank(p) \in 1 .. N
      /\ \A n \in 1 .. N : \E p \in Places : Rank(p) = n
  BY RankIncreases, RankOnto
<1>6. check_ci_go_policy(steps) = {} <=>
        \E preflight, setup, version, gate \in 1 .. N :
           /\ P = {preflight} /\ S = {setup} /\ V = {version} /\ G = {gate}
           /\ fine(setup)
           /\ \A n \in {setup, version, gate} : block(n) = block(preflight)
           /\ at(preflight) < at(setup) /\ at(setup) < at(version) /\ at(version) < at(gate)
  <2> DEFINE given == Steps
  <2>1. DOMAIN given = 1 .. N
    BY <1>1
  <2> HIDE DEF given
  <2>2. check_ci_go_policy(given) = {} <=>
          \E preflight, setup, version, gate \in 1 .. N :
                /\ UnconditionalRuns(given, {Said(PREFLIGHT)}) = {preflight}
                /\ Setups(given) = {setup}
                /\ UnconditionalRuns(given, EXPECTED_GOVERSION_SCRIPTS) = {version}
                /\ UnconditionalRuns(given, {Said(GATE)}) = {gate}
                /\ Field(given[setup].fields, "uses") \in ImmutableReferences
                /\ SetupErrors(given[setup]) = {}
                /\ \A n \in {setup, version, gate} :
                     given[n].steps_block = given[preflight].steps_block
                /\ given[preflight].position < given[setup].position
                /\ given[setup].position < given[version].position
                /\ given[version].position < given[gate].position
    BY <1>1, <2>1, PolicySilent
  <2> QED BY <2>2 DEF given
<1>7. Honoured <=>
        \E preflight, setup, version, gate \in Places :
           /\ preflights = {preflight} /\ setups = {setup} /\ versions = {version} /\ gates = {gate}
           /\ reviewed(setup)
           /\ \A p \in {setup, version, gate} : p[1] = preflight[1]
           /\ preflight[2] < setup[2] /\ setup[2] < version[2] /\ version[2] < gate[2]
  BY Zenon DEF Honoured
<1> HIDE DEF P, S, V, G, preflights, versions, gates, fine, reviewed, at, block
<1> DEFINE FoundInOrder(a, b, c, d) ==
             /\ \A n \in {b, c, d} : block(n) = block(a)
             /\ at(a) < at(b) /\ at(b) < at(c) /\ at(c) < at(d)
           MeantInOrder(a, b, c, d) ==
             /\ \A p \in {b, c, d} : p[1] = a[1]
             /\ a[2] < b[2] /\ b[2] < c[2] /\ c[2] < d[2]
<1>8. ASSUME NEW preflight \in Places, NEW setup \in Places, NEW version \in Places,
             NEW gate \in Places
      PROVE  FoundInOrder(Rank(preflight), Rank(setup), Rank(version), Rank(gate))
             <=> MeantInOrder(preflight, setup, version, gate)
  <2>1. /\ block(Rank(setup)) = block(Rank(preflight)) <=> setup[1] = preflight[1]
        /\ block(Rank(version)) = block(Rank(preflight)) <=> version[1] = preflight[1]
        /\ block(Rank(gate)) = block(Rank(preflight)) <=> gate[1] = preflight[1]
    BY <1>3
  <2>2. /\ at(Rank(preflight)) < at(Rank(setup)) <=> Precedes(preflight, setup)
        /\ at(Rank(setup)) < at(Rank(version)) <=> Precedes(setup, version)
        /\ at(Rank(version)) < at(Rank(gate)) <=> Precedes(version, gate)
    BY <1>3
  <2>3. /\ setup[1] = preflight[1] => (Precedes(preflight, setup) <=> preflight[2] < setup[2])
        /\ setup[1] = preflight[1] /\ version[1] = preflight[1] =>
             (Precedes(setup, version) <=> setup[2] < version[2])
        /\ version[1] = preflight[1] /\ gate[1] = preflight[1] =>
             (Precedes(version, gate) <=> version[2] < gate[2])
    BY SameJob
  <2> QED BY <2>1, <2>2, <2>3
<1>9. check_ci_go_policy(steps) = {} <=> Honoured
  <2> DEFINE silent == check_ci_go_policy(steps) = {}
             R(p) == Rank(p)
  <2>1. silent <=>
          \E a, b, c, d \in 1 .. N : /\ P = {a} /\ S = {b} /\ V = {c} /\ G = {d}
                                     /\ fine(b) /\ FoundInOrder(a, b, c, d)
    BY <1>6
  <2>2. Honoured <=>
          \E a, b, c, d \in Places :
             /\ preflights = {a} /\ setups = {b} /\ versions = {c} /\ gates = {d}
             /\ reviewed(b) /\ MeantInOrder(a, b, c, d)
    BY <1>7
  <2>3. \A a, b, c, d \in Places : FoundInOrder(R(a), R(b), R(c), R(d)) <=> MeantInOrder(a, b, c, d)
    <3> HIDE DEF FoundInOrder, MeantInOrder
    <3> QED BY <1>8
  <2>4. \A b \in Places : setups = {b} => (fine(R(b)) <=> reviewed(b))
    BY <1>4
  <2>5. /\ \A p \in Places : R(p) \in 1 .. N
        /\ \A n \in 1 .. N : \E p \in Places : R(p) = n
    BY <1>5
  <2>6. \A p \in Places : /\ P = {R(p)} <=> preflights = {p}
                          /\ S = {R(p)} <=> setups = {p}
                          /\ V = {R(p)} <=> versions = {p}
                          /\ G = {R(p)} <=> gates = {p}
    BY <1>2
  <2> HIDE DEF silent, R, FoundInOrder, MeantInOrder, setups
  <2>7. ASSUME silent PROVE Honoured
    <3>1. PICK a, b, c, d \in 1 .. N : /\ P = {a} /\ S = {b} /\ V = {c} /\ G = {d}
                                       /\ fine(b) /\ FoundInOrder(a, b, c, d)
      BY <2>1, <2>7
    <3>2. PICK w, x, y, z \in Places : R(w) = a /\ R(x) = b /\ R(y) = c /\ R(z) = d
      <4>1. /\ \E p \in Places : R(p) = a
            /\ \E p \in Places : R(p) = b
            /\ \E p \in Places : R(p) = c
            /\ \E p \in Places : R(p) = d
        BY <2>5, <3>1
      <4> QED BY <4>1
    <3>3. preflights = {w} /\ setups = {x} /\ versions = {y} /\ gates = {z}
      BY <2>6, <3>1, <3>2
    <3>4. reviewed(x) /\ MeantInOrder(w, x, y, z)
      BY <2>3, <2>4, <3>1, <3>2, <3>3
    <3> QED BY <2>2, <3>3, <3>4
  <2>8. ASSUME Honoured PROVE silent
    <3>1. PICK a, b, c, d \in Places :
             /\ preflights = {a} /\ setups = {b} /\ versions = {c} /\ gates = {d}
             /\ reviewed(b) /\ MeantInOrder(a, b, c, d)
      BY <2>2, <2>8
    <3>2. P = {R(a)} /\ S = {R(b)} /\ V = {R(c)} /\ G = {R(d)}
      BY <2>6, <3>1
    <3>3. fine(R(b)) /\ FoundInOrder(R(a), R(b), R(c), R(d))
      BY <2>3, <2>4, <3>1
    <3> QED BY <2>1, <2>5, <3>2, <3>3
  <2> QED BY <2>7, <2>8 DEF silent
<1> QED BY <1>9 DEF PolicyExact

-----------------------------------------------------------------------------
(* The edits leave a document a document.                                  *)

LEMMA PartOfSeq ==
    ASSUME NEW S, NEW s \in Seq(S), NEW m \in Nat, NEW n \in Nat, m >= 1, n <= Len(s)
    PROVE  SubSeq(s, m, n) \in Seq(S)
<1>1. \A i \in m .. n : s[i] \in S
  BY ElementOfSeq
<1> QED BY <1>1, SubSeqProperties

LEMMA EditedJob ==
    ASSUME NEW S, NEW d \in Seq(Seq(S)), d = document,
           NEW p, p \in Places, NEW job \in Seq(S)
    PROVE  JobWith(p, job) \in Seq(Seq(S))
<1>1. p[1] \in 1 .. Len(d)
  BY DEF Places
<1>2. [d EXCEPT ![p[1]] = job] \in Seq(Seq(S))
  BY <1>1, ExceptSeq
<1> QED BY <1>2 DEF JobWith

LEMMA EditedStep ==
    ASSUME NEW S, NEW d \in Seq(Seq(S)), d = document,
           NEW p, p \in Places, NEW step
    PROVE  StepWith(p, step) \in Seq(Seq(S \union {step}))
<1>1. p[1] \in 1 .. Len(d) /\ p[2] \in 1 .. Len(d[p[1]]) /\ d[p[1]] \in Seq(S)
  BY DEF Places
<1>2. d[p[1]] \in Seq(S \union {step})
  BY <1>1, SeqMonotonic
<1>3. d \in Seq(Seq(S \union {step}))
  <2>1. Seq(S) \subseteq Seq(S \union {step})
    BY SeqMonotonic
  <2> QED BY <2>1, SeqMonotonic
<1>4. [d[p[1]] EXCEPT ![p[2]] = step] \in Seq(S \union {step})
  BY <1>1, <1>2, ExceptSeq
<1>5. [d EXCEPT ![p[1]] = [d[p[1]] EXCEPT ![p[2]] = step]] \in Seq(Seq(S \union {step}))
  BY <1>1, <1>3, <1>4, ExceptSeq
<1>6. StepWith(p, step) = [d EXCEPT ![p[1]] = [d[p[1]] EXCEPT ![p[2]] = step]]
  BY DEF StepWith
<1> QED BY <1>5, <1>6

LEMMA DocumentKept ==
    ASSUME IsDocument, Next
    PROVE  IsDocument'
<1>1. PICK S, d : d = document /\ d \in Seq(Seq(S))
  BY DEF IsDocument
<1>2. ASSUME NEW p \in Places
      PROVE  /\ p[1] \in 1 .. Len(d) /\ p[2] \in 1 .. Len(d[p[1]])
             /\ d[p[1]] \in Seq(S) /\ Len(d[p[1]]) \in Nat
  BY <1>1 DEF Places
<1>3. ASSUME NEW p \in Places, NEW T, S \subseteq T, NEW job \in Seq(T),
             document' = JobWith(p, job)
      PROVE  IsDocument'
  <2>1. d \in Seq(Seq(T))
    <3>1. Seq(S) \subseteq Seq(T)
      BY <1>3, SeqMonotonic
    <3> QED BY <1>1, <3>1, SeqMonotonic
  <2>2. JobWith(p, job) \in Seq(Seq(T))
    BY <1>1, <2>1, EditedJob
  <2> QED BY <1>3, <2>2 DEF IsDocument
<1>4. ASSUME NEW p \in Places, NEW step, document' = StepWith(p, step)
      PROVE  IsDocument'
  <2>1. StepWith(p, step) \in Seq(Seq(S \union {step}))
    BY <1>1, EditedStep
  <2> QED BY <1>4, <2>1 DEF IsDocument
<1>5. CASE RemoveStep
  <2>1. PICK p \in Places : document' = JobWith(p, RemoveAt(d[p[1]], p[2]))
    BY <1>1, <1>5 DEF RemoveStep, Edit
  <2>2. /\ SubSeq(d[p[1]], 1, p[2] - 1) \in Seq(S)
        /\ SubSeq(d[p[1]], p[2] + 1, Len(d[p[1]])) \in Seq(S)
    BY <1>2, PartOfSeq
  <2>3. RemoveAt(d[p[1]], p[2]) \in Seq(S)
    BY <2>2, ConcatProperties DEF RemoveAt
  <2> QED BY <1>3, <2>1, <2>3
<1>6. CASE AddStep
  <2>1. PICK p \in Places, step \in ExtraSteps :
          document' = JobWith(p, InsertAt(d[p[1]], p[2], step))
    BY <1>1, <1>6 DEF AddStep, Edit
  <2> DEFINE T == S \union {step}
  <2>2. d[p[1]] \in Seq(T)
    BY <1>2, SeqMonotonic
  <2>3. /\ SubSeq(d[p[1]], 1, p[2] - 1) \in Seq(T)
        /\ SubSeq(d[p[1]], p[2], Len(d[p[1]])) \in Seq(T)
        /\ <<step>> \in Seq(T)
    BY <1>2, <2>2, PartOfSeq
  <2>4. InsertAt(d[p[1]], p[2], step) \in Seq(T)
    BY <2>3, ConcatProperties DEF InsertAt
  <2> QED BY <1>3, <2>1, <2>4
<1>7. CASE SwapSteps
  <2>1. PICK p \in Places :
          /\ p[2] < Len(d[p[1]])
          /\ document' = JobWith(p, [d[p[1]] EXCEPT ![p[2]] = d[p[1]][p[2] + 1],
                                                   ![p[2] + 1] = d[p[1]][p[2]]])
    BY <1>1, <1>7 DEF SwapSteps, Edit
  <2> DEFINE job == d[p[1]]
             n == p[2]
  <2>2. n \in 1 .. Len(job) /\ n + 1 \in 1 .. Len(job) /\ job \in Seq(S)
    BY <1>2, <2>1
  <2>3. [job EXCEPT ![n] = job[n + 1], ![n + 1] = job[n]] \in Seq(S)
    BY <2>2
  <2> QED BY <1>3, <2>1, <2>3
<1>8. CASE SplitJob
  <2>1. PICK p \in Places :
          /\ p[2] > 1
          /\ document' = SubSeq(d, 1, p[1] - 1)
                         \o <<SubSeq(d[p[1]], 1, p[2] - 1),
                              SubSeq(d[p[1]], p[2], Len(d[p[1]]))>>
                         \o SubSeq(d, p[1] + 1, Len(d))
    BY <1>1, <1>8 DEF SplitJob, Edit
  <2>2. /\ SubSeq(d[p[1]], 1, p[2] - 1) \in Seq(S)
        /\ SubSeq(d[p[1]], p[2], Len(d[p[1]])) \in Seq(S)
    BY <1>2, PartOfSeq
  <2>3. <<SubSeq(d[p[1]], 1, p[2] - 1), SubSeq(d[p[1]], p[2], Len(d[p[1]]))>> \in Seq(Seq(S))
    BY <2>2
  <2>4. SubSeq(d, 1, p[1] - 1) \in Seq(Seq(S)) /\ SubSeq(d, p[1] + 1, Len(d)) \in Seq(Seq(S))
    BY <1>1, <1>2, PartOfSeq
  <2>5. document' \in Seq(Seq(S))
    BY <2>1, <2>3, <2>4, ConcatProperties
  <2> QED BY <2>5 DEF IsDocument
<1>9. CASE AddCondition
  <2>1. PICK p, step : p \in Places /\ document' = StepWith(p, step)
    BY <1>9 DEF AddCondition, Edit
  <2> QED BY <1>4, <2>1
<1>10. CASE RewordField
  <2>1. PICK p, step : p \in Places /\ document' = StepWith(p, step)
    BY <1>10 DEF RewordField, Edit
  <2> QED BY <1>4, <2>1
<1>11. CASE MoveFieldLast
  <2>1. PICK p, step : p \in Places /\ document' = StepWith(p, step)
    BY <1>11 DEF MoveFieldLast, Edit
  <2> QED BY <1>4, <2>1
<1>12. CASE AddRemark
  <2>1. PICK p, step : p \in Places /\ document' = StepWith(p, step)
    BY <1>12 DEF AddRemark, Edit
  <2> QED BY <1>4, <2>1
<1> QED
  BY <1>5, <1>6, <1>7, <1>8, <1>9, <1>10, <1>11, <1>12 DEF Next

(* check_repository.py:409-496.  Whatever workflow the review reaches: when  *)
(* the reader found its steps as they are written, the policy is silent on  *)
(* it exactly when the four stages are there as promised.                  *)
THEOREM PolicyExactWhenRead == Spec => [](StepsRecovered => PolicyExact)
<1>1. Init => IsDocument
  BY ReviewAssumption DEF Init, IsDocument
<1>2. IsDocument /\ [Next]_(vars) => IsDocument'
  <2>1. IsDocument /\ UNCHANGED vars => IsDocument'
    BY DEF IsDocument, vars
  <2> QED BY <2>1, DocumentKept
<1>3. IsDocument => (StepsRecovered => PolicyExact)
  BY RecoveredIsExact
<1> QED BY <1>1, <1>2, <1>3, PTL DEF Spec
=============================================================================
