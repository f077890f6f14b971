--------------------------- MODULE GeneticProofs ---------------------------
(***************************************************************************)
(* Theorems about Genetic for every population size, elite size, set of    *)
(* genes and number of samples and generations, and whatever registers     *)
(* the programs leave.                                                     *)
(***************************************************************************)
EXTENDS Genetic, SetInductions, FiniteSetTheorems, SequenceTheorems, TLAPS

(* What a program may cost: nothing is assumed of Expected and Result here. *)
Costs == Nat \cup {SampleCost(p, x) : p \in Program, x \in 0..Samples - 1}

Typed ==
    /\ dna \in [Species -> Program] /\ judged \in [Species -> Program]
    /\ phase \in {"evaluate", "sort", "replace", "crossover", "mutate",
                  "conclude", "winner", "over"}
    /\ gen \in 0..generations /\ species \in 0..maxSpecies
    /\ sample \in 0..Samples /\ cost \in Costs /\ lowestCost \in Costs
    /\ costs \in [Species -> [species : Species, cost : Costs]]
    /\ population \in [0..tournamentK - 1 -> Species]
    /\ i \in 0..maxSpecies /\ j \in Nat
    /\ crossOverCount \in 0..maxSpecies - tournamentK - 1

(* Where each loop is while it runs.                                       *)
LoopsInRange ==
    /\ phase # "over" => gen < generations
    /\ phase = "crossover" => i \in 0..tournamentK - 1
    /\ phase = "mutate" => i \in 0..maxSpecies - tournamentK - 1

(* Costs are stored in the order of the species, so that sorting them      *)
(* gives each species one rank.                                            *)
OneRankEach ==
    /\ phase = "evaluate" => \A r \in 0..species - 1 : costs[r].species = r
    /\ phase = "sort" => \A r \in Species : costs[r].species = r
    /\ phase \in {"replace", "crossover", "mutate", "conclude"} =>
         \A r, s \in Species : costs[r].species = costs[s].species => r = s

(* What is left of the elite in each phase.                                *)
EliteKept ==
    /\ phase = "replace" => dna = judged
    /\ phase = "crossover" => \A s \in Elite : dna[s] = judged[s]
    /\ phase \in {"mutate", "conclude"} =>
         \A s \in Elite : s >= maxSpecies - tournamentK => dna[s] = judged[s]

(* The inductive invariant.                                                *)
IInv == Typed /\ LoopsInRange /\ OneRankEach /\ EliteKept

-----------------------------------------------------------------------------
(* What the edits of a program make of it.                                 *)

(* The elements of a function on 1..n are those of a sequence.             *)
LEMMA FunctionIsSeq ==
    ASSUME NEW n \in Nat, NEW f \in [1..n -> Genes]
    PROVE  f \in Seq(Genes) /\ Len(f) = n
OBVIOUS

LEMMA ProgramLength ==
    ASSUME NEW p \in Program
    PROVE  /\ p \in Seq(Genes) /\ Len(p) \in Nat \ {0}
           /\ DOMAIN p = 1..Len(p) /\ p \in [1..Len(p) -> Genes]
BY EmptySeq, LenProperties DEF Program

LEMMA LongIsProgram ==
    ASSUME NEW p \in Seq(Genes), Len(p) > 0
    PROVE  p \in Program
BY EmptySeq DEF Program

(* Crossover takes lines from within both parents.                         *)
LEMMA SplicedIsProgram ==
    ASSUME NEW p \in Program, NEW q \in Program, NEW start \in Nat,
           NEW end \in Int, end <= Len(q)
    PROVE  Spliced(p, q, start, end) \in Program
<1>1. Spliced(p, q, start, end) \in [1..Len(p) -> Genes]
  BY ProgramLength DEF Spliced
<1>2. Len(p) \in Nat /\ Len(p) > 0
  BY ProgramLength
<1>3. /\ Spliced(p, q, start, end) \in Seq(Genes)
      /\ Len(Spliced(p, q, start, end)) = Len(p)
  BY Zenon, <1>1, <1>2, FunctionIsSeq
<1> QED BY <1>2, <1>3, LongIsProgram

(* Lines a to b of a program.                                              *)
LEMMA PartOfProgram ==
    ASSUME NEW p \in Program, NEW a \in Nat \ {0}, NEW b \in Nat, b <= Len(p)
    PROVE  /\ SubSeq(p, a, b) \in Seq(Genes)
           /\ Len(SubSeq(p, a, b)) = IF a <= b THEN b - a + 1 ELSE 0
<1>1. \A k \in a..b : p[k] \in Genes
  BY ProgramLength
<1> QED BY <1>1, SubSeqProperties

LEMMA InsertedIsProgram ==
    ASSUME NEW p \in Program, NEW g \in Genes, NEW k \in Nat, k < Len(p) - 1
    PROVE  SubSeq(p, 1, k) \o <<g>> \o SubSeq(p, k + 1, Len(p)) \in Program
<1> DEFINE front == SubSeq(p, 1, k)
           back == SubSeq(p, k + 1, Len(p))
<1>1. Len(p) \in Nat
  BY ProgramLength
<1>2. front \in Seq(Genes) /\ back \in Seq(Genes)
  BY <1>1, PartOfProgram
<1>3. <<g>> \in Seq(Genes) /\ Len(<<g>>) = 1
  OBVIOUS
<1> HIDE DEF front, back
<1>4. front \o <<g>> \in Seq(Genes) /\ Len(front \o <<g>>) = Len(front) + 1
  BY <1>2, <1>3, ConcatProperties
<1>5. /\ front \o <<g>> \o back \in Seq(Genes)
      /\ Len(front \o <<g>> \o back) = Len(front) + 1 + Len(back)
  BY <1>2, <1>4, ConcatProperties
<1>6. Len(front) \in Nat /\ Len(back) \in Nat
  BY <1>2, LenProperties
<1>7. Len(front \o <<g>> \o back) > 0
  BY <1>5, <1>6
<1>8. front \o <<g>> \o back \in Program
  BY ONLY <1>5, <1>7, LongIsProgram
<1> QED BY <1>8 DEF front, back

(* The last line is never visited, so a line is left after an erasure.     *)
LEMMA ErasedIsProgram ==
    ASSUME NEW p \in Program, NEW k \in Nat, k < Len(p) - 1
    PROVE  SubSeq(p, 1, k) \o SubSeq(p, k + 2, Len(p)) \in Program
<1> DEFINE front == SubSeq(p, 1, k)
           back == SubSeq(p, k + 2, Len(p))
<1>1. Len(p) \in Nat
  BY ProgramLength
<1>2. /\ front \in Seq(Genes) /\ back \in Seq(Genes)
      /\ Len(back) = Len(p) - (k + 2) + 1
  BY <1>1, PartOfProgram
<1>3. Len(front) \in Nat /\ Len(back) > 0
  BY <1>1, <1>2, LenProperties
<1> HIDE DEF front, back
<1>4. front \o back \in Seq(Genes) /\ Len(front \o back) = Len(front) + Len(back)
  BY <1>2, ConcatProperties
<1>5. Len(back) \in Nat
  BY <1>2, LenProperties
<1>6. Len(front \o back) > 0
  BY <1>3, <1>4, <1>5
<1>7. front \o back \in Program
  BY ONLY <1>4, <1>6, LongIsProgram
<1> QED BY <1>7 DEF front, back

LEMMA RewrittenIsProgram ==
    ASSUME NEW p \in Program, NEW g \in Genes, NEW k \in 1..Len(p)
    PROVE  [p EXCEPT ![k] = g] \in Program
<1>1. /\ [p EXCEPT ![k] = g] \in Seq(Genes)
      /\ Len([p EXCEPT ![k] = g]) = Len(p)
  BY ProgramLength, ExceptSeq
<1>2. Len([p EXCEPT ![k] = g]) > 0
  BY <1>1, ProgramLength
<1> QED BY ONLY <1>1, <1>2, LongIsProgram

(* Sorting loses no species: a rearrangement of as many costs as there are *)
(* species, each of another species, gives no species two ranks.           *)
LEMMA SortedOncePerSpecies ==
    ASSUME Typed, \A r \in Species : costs[r].species = r,
           NEW c \in SortedCosts
    PROVE  /\ c \in [Species -> [species : Species, cost : Costs]]
           /\ \A r, s \in Species : c[r].species = c[s].species => r = s
<1> DEFINE owner == [r \in Species |-> c[r].species]
<1>1. /\ c \in [Species -> {costs[s] : s \in Species}]
      /\ \A s \in Species : \E r \in Species : c[r] = costs[s]
  BY DEF SortedCosts
<1>2. c \in [Species -> [species : Species, cost : Costs]]
  <2>1. {costs[s] : s \in Species} \subseteq [species : Species, cost : Costs]
    BY DEF Typed
  <2> QED BY <1>1, <2>1
<1>3. owner \in [Species -> Species]
  BY <1>2
<1>4. ASSUME NEW s \in Species PROVE \E r \in Species : owner[r] = s
  <2>1. PICK r \in Species : c[r] = costs[s]
    BY <1>1
  <2>2. owner[r] = s
    BY <2>1
  <2> QED BY <2>2
<1>5. owner \in Surjection(Species, Species)
  BY <1>3, <1>4 DEF Surjection
<1>6. IsFiniteSet(Species)
  BY PopulationAssumption, FS_Interval DEF Species
<1>7. owner \in Injection(Species, Species)
  BY <1>5, <1>6, FS_SurjSameCardinalityImpliesInj
<1>8. \A r, s \in Species : owner[r] = owner[s] => r = s
  BY <1>3, <1>7 DEF Injection, IsInjective
<1> QED BY <1>2, <1>8

LEMMA EliteAreSpecies == ASSUME Typed PROVE Elite \subseteq Species
<1>1. 0..tournamentK - 1 \subseteq Species
  BY PopulationAssumption DEF Species
<1>2. \A r \in Species : costs[r].species \in Species
  BY DEF Typed
<1> QED BY <1>1, <1>2 DEF Elite

LEMMA InitIInv == ASSUME Init PROVE IInv
<1>1. dna \in [Species -> Program]
  BY DnaAssumption DEF Init
<1>2. 0 \in Species /\ 0 \in Costs
  BY PopulationAssumption DEF Species, Costs
<1>3. Typed
  BY <1>1, <1>2, PopulationAssumption, SamplesAssumption
     DEF Init, Typed, NoCosts
<1>4. LoopsInRange /\ OneRankEach /\ EliteKept
  BY SamplesAssumption DEF Init, LoopsInRange, OneRankEach, EliteKept
<1> QED BY <1>3, <1>4 DEF IInv

(* Selection keeps the invariant.                                          *)
LEMMA SelectionIInv ==
    ASSUME IInv, RunSample \/ StoreCost \/ SortCosts \/ ReplaceLosers
    PROVE  IInv'
<1> USE PopulationAssumption, SamplesAssumption DEF IInv
<1>1. CASE RunSample
  <2>1. SampleCost(dna[species], sample) \in Costs
    <3>1. species \in Species /\ sample \in 0..Samples - 1
      BY <1>1 DEF RunSample, Typed, Species
    <3>2. dna[species] \in Program
      BY <3>1 DEF Typed
    <3> DEFINE spent == SampleCost(dna[species], sample)
    <3>3. \E p \in Program, x \in 0..Samples - 1 : spent = SampleCost(p, x)
      BY Zenon, <3>1, <3>2
    <3> HIDE DEF spent
    <3>4. spent \in Costs
      BY <3>3 DEF Costs
    <3> QED BY <3>4 DEF spent
  <2>2. Typed'
    BY <1>1, <2>1 DEF RunSample, Typed
  <2>3. (LoopsInRange /\ OneRankEach /\ EliteKept)'
    BY <1>1 DEF RunSample, LoopsInRange, OneRankEach, EliteKept, Elite
  <2> QED BY <2>2, <2>3
<1>2. CASE StoreCost
  <2>1. species \in Species
    BY <1>2 DEF StoreCost, Typed, Species
  <2>2. Typed'
    <3>1. [species |-> species, cost |-> cost] \in [species : Species, cost : Costs]
      BY <2>1 DEF Typed
    <3>2. costs' \in [Species -> [species : Species, cost : Costs]]
      BY <1>2, <3>1 DEF StoreCost, Typed
    <3>3. species' \in 0..maxSpecies /\ cost' \in Costs /\ sample' \in 0..Samples
      BY <1>2, <2>1 DEF StoreCost, Species, Costs
    <3> QED BY <1>2, <3>2, <3>3 DEF StoreCost, Typed
  <2>3. OneRankEach'
    <3>1. ASSUME NEW r \in 0..species PROVE costs'[r].species = r
      <4>1. CASE r = species
        BY <1>2, <2>1, <4>1 DEF StoreCost, Typed
      <4>2. CASE r # species
        <5>1. r \in 0..species - 1 /\ r \in Species
          BY <2>1, <4>2 DEF Species
        <5>2. costs'[r] = costs[r]
          BY <1>2, <4>2, <5>1 DEF StoreCost, Typed
        <5> QED BY <1>2, <5>1, <5>2 DEF StoreCost, OneRankEach
      <4> QED BY <4>1, <4>2
    <3>2. species' = species + 1 /\ phase' \in {"evaluate", "sort"}
      BY <1>2 DEF StoreCost
    <3>3. phase' = "sort" => species + 1 = maxSpecies
      BY <1>2 DEF StoreCost
    <3> QED BY <2>1, <3>1, <3>2, <3>3 DEF OneRankEach, Species
  <2>4. (LoopsInRange /\ EliteKept)'
    BY <1>2 DEF StoreCost, LoopsInRange, EliteKept
  <2> QED BY <2>2, <2>3, <2>4
<1>3. CASE SortCosts
  <2>1. /\ costs' \in [Species -> [species : Species, cost : Costs]]
        /\ \A r, s \in Species : costs'[r].species = costs'[s].species => r = s
    BY <1>3, SortedOncePerSpecies DEF SortCosts, OneRankEach
  <2>2. costs'[0].cost \in Costs
    BY <2>1 DEF Species
  <2>3. Typed'
    BY <1>3, <2>1, <2>2 DEF SortCosts, Typed
  <2>4. (LoopsInRange /\ OneRankEach /\ EliteKept)'
    BY <1>3, <2>1 DEF SortCosts, LoopsInRange, OneRankEach, EliteKept
  <2> QED BY <2>3, <2>4
<1>4. CASE ReplaceLosers
  <2>1. Elite \subseteq Species /\ Losers \subseteq Species
    BY DEF Elite, Losers, Typed, Species
  <2>2. PICK new \in [Losers -> RandomDna] :
          dna' = [s \in Species |-> IF s \in Losers THEN new[s] ELSE dna[s]]
    BY <1>4 DEF ReplaceLosers
  <2>3. dna' \in [Species -> Program]
    BY <2>2, DnaAssumption DEF Typed
  <2>4. population' \in [0..tournamentK - 1 -> Species]
    BY <1>4, <2>1 DEF ReplaceLosers
  <2>5. Typed'
    BY <1>4, <2>3, <2>4 DEF ReplaceLosers, Typed
  <2>6. \A s \in Elite : s \notin Losers
    BY <1>4 DEF ReplaceLosers, OneRankEach, Elite, Losers, Species
  <2>7. \A s \in Elite : dna'[s] = judged[s]
    BY <1>4, <2>1, <2>2, <2>6 DEF ReplaceLosers, EliteKept
  <2>8. (LoopsInRange /\ OneRankEach)'
    BY <1>4 DEF ReplaceLosers, LoopsInRange, OneRankEach
  <2>9. Elite' = Elite
    BY <1>4 DEF ReplaceLosers, Elite
  <2>10. EliteKept'
    BY <1>4, <2>7, <2>9 DEF ReplaceLosers, EliteKept
  <2> QED BY <2>5, <2>8, <2>10
<1> QED BY <1>1, <1>2, <1>3, <1>4

(* Breeding puts programs in the losers' places only.                      *)
LEMMA OffspringIsNoElite ==
    ASSUME IInv, phase = "crossover",
           NEW count \in 0..maxSpecies - tournamentK - 1
    PROVE  Offspring(count) \in Species \ Elite
<1>1. tournamentK + count \in Species /\ 0..tournamentK - 1 \subseteq Species
  BY PopulationAssumption DEF Species
<1>2. Offspring(count) \in Species
  BY <1>1 DEF IInv, Typed, Offspring
<1>3. \A r \in 0..tournamentK - 1 : costs[r].species # Offspring(count)
  BY <1>1, PopulationAssumption DEF IInv, OneRankEach, Offspring
<1> QED BY <1>2, <1>3 DEF Elite

LEMMA NextCountInRange ==
    ASSUME NEW count \in 0..maxSpecies - tournamentK - 1
    PROVE  NextCount(count) \in 0..maxSpecies - tournamentK - 1
<1> DEFINE n == maxSpecies - tournamentK
<1>1. n \in Nat /\ n > 0
  BY PopulationAssumption
<1> HIDE DEF n
<1>2. (count + 1) % n \in 0..n - 1
  BY <1>1
<1> QED BY <1>2 DEF NextCount, n

(* The next value of a loop counter below its bound.                       *)
LEMMA EndOfLoopInRange ==
    ASSUME NEW bound \in Nat, i \in 0..bound - 1
    PROVE  /\ EndOfLoop(bound) \in 0..bound - 1
           /\ bound > 0
BY DEF EndOfLoop

LEMMA BreedingIInv ==
    ASSUME IInv, CrossOver \/ NoCrossOver PROVE IInv'
<1> USE PopulationAssumption
<1>1. phase = "crossover" /\ i \in 0..tournamentK - 1
  BY DEF IInv, LoopsInRange, CrossOver, NoCrossOver
<1>2. i' \in 0..tournamentK - 1 /\ i' \in 0..maxSpecies
  BY <1>1, EndOfLoopInRange DEF CrossOver, NoCrossOver
<1>3. Elite' = Elite /\ Elite \subseteq Species
  <2>1. costs' = costs
    BY DEF CrossOver, NoCrossOver
  <2> QED BY <2>1, EliteAreSpecies DEF Elite, IInv
<1>4. /\ dna' \in [Species -> Program]
      /\ crossOverCount' \in 0..maxSpecies - tournamentK - 1
      /\ \A s \in Elite : dna'[s] = dna[s]
  <2>1. CASE NoCrossOver
    BY <2>1 DEF NoCrossOver, IInv, Typed
  <2>2. CASE CrossOver
    <3>1. PICK b \in Irand(tournamentK - 1) :
            LET parentA == dna[population[i]]
                parentB == dna[population[b]]
                size == MinProgSize(parentA, parentB)
            IN \E start \in Irand(size - 1) : \E span \in Irand(size - start) :
                   Breed(parentA, parentB, start, start + span)
      BY <2>2 DEF CrossOver
    <3> DEFINE parentA == dna[population[i]]
               parentB == dna[population[b]]
               size == MinProgSize(parentA, parentB)
               again == NextCount(crossOverCount)
    <3>2. b \in 0..tournamentK - 1
      BY DEF Irand
    <3>3. parentA \in Program /\ parentB \in Program
      BY <1>1, <3>2 DEF IInv, Typed
    <3>4. size \in Nat \ {0} /\ size <= Len(parentA) /\ size <= Len(parentB)
      BY <3>3, ProgramLength DEF MinProgSize
    <3>5. crossOverCount \in 0..maxSpecies - tournamentK - 1
      BY DEF IInv, Typed
    <3>6. again \in 0..maxSpecies - tournamentK - 1
      BY <3>5, NextCountInRange
    <3>7. NextCount(again) \in 0..maxSpecies - tournamentK - 1
      BY <3>6, NextCountInRange
    <3>8. /\ Offspring(crossOverCount) \in Species \ Elite
          /\ Offspring(again) \in Species \ Elite
      BY <1>1, <3>5, <3>6, OffspringIsNoElite
    <3>9. PICK start \in Irand(size - 1) : \E span \in Irand(size - start) :
            Breed(parentA, parentB, start, start + span)
      BY <3>1
    <3>10. PICK span \in Irand(size - start) :
            Breed(parentA, parentB, start, start + span)
      BY <3>9
    <3> HIDE DEF parentA, parentB, size
    <3>11. /\ Spliced(parentA, parentB, start, start + span) \in Program
           /\ Spliced(parentB, parentA, start, start + span) \in Program
      <4>1. start \in Nat /\ start + span \in Int /\ start + span <= size
        BY <3>4 DEF Irand
      <4>2. start + span <= Len(parentA) /\ start + span <= Len(parentB)
        BY <3>3, <3>4, <4>1, ProgramLength
      <4> QED BY <3>3, <4>1, <4>2, SplicedIsProgram
    <3>12. dna \in [Species -> Program]
      BY DEF IInv, Typed
    <3> QED BY <1>3, <3>3, <3>7, <3>8, <3>10, <3>11, <3>12 DEF Breed
  <2> QED BY <2>1, <2>2
<1>5. phase' \in {"crossover", "mutate"} /\ (phase' = "mutate" => i' = 0) /\ j' = 0
  BY DEF CrossOver, NoCrossOver
<1>6. UNCHANGED <<gen, species, sample, cost, costs, lowestCost, population, judged>>
  BY DEF CrossOver, NoCrossOver
<1>7. Typed'
  BY <1>2, <1>4, <1>5, <1>6 DEF IInv, Typed
<1>8. LoopsInRange'
  BY <1>1, <1>2, <1>5, <1>6 DEF IInv, LoopsInRange
<1>9. OneRankEach'
  BY <1>1, <1>5, <1>6 DEF IInv, OneRankEach
<1>10. EliteKept'
  BY <1>1, <1>3, <1>4, <1>5, <1>6 DEF IInv, EliteKept
<1> QED BY <1>7, <1>8, <1>9, <1>10 DEF IInv

(* Mutation stays among the programs it may touch.                         *)
LEMMA MutationIInv ==
    ASSUME IInv, InsertLine \/ EraseLine \/ RewriteLine \/ KeepLine
    PROVE  IInv'
<1> USE PopulationAssumption
<1>1. /\ phase = "mutate" /\ j < Len(dna[i]) - 1
      /\ i \in 0..maxSpecies - tournamentK - 1 /\ i \in Species /\ j \in Nat
  <2>1. Mutating
    BY DEF InsertLine, EraseLine, RewriteLine, KeepLine
  <2>2. phase = "mutate" /\ j < Len(dna[i]) - 1
    BY <2>1 DEF Mutating, LastLine
  <2>3. i \in 0..maxSpecies - tournamentK - 1 /\ j \in Nat
    BY <2>2 DEF IInv, Typed, LoopsInRange
  <2> QED BY <2>2, <2>3 DEF Species
<1>2. /\ dna \in [Species -> Program] /\ dna[i] \in Program
      /\ Len(dna[i]) \in Nat
  BY <1>1, ProgramLength DEF IInv, Typed
<1>3. UNCHANGED <<phase, i, frame>> /\ j' \in Nat
  BY <1>1 DEF InsertLine, EraseLine, RewriteLine, KeepLine, frame
<1>4. \E p \in Program : dna' = [dna EXCEPT ![i] = p]
  <2>1. CASE InsertLine
    <3>1. PICK g \in Genes : dna' = [dna EXCEPT ![i] =
              SubSeq(dna[i], 1, j) \o <<g>> \o SubSeq(dna[i], j + 1, Len(dna[i]))]
      BY <2>1 DEF InsertLine
    <3> QED BY <1>1, <1>2, <3>1, InsertedIsProgram
  <2>2. CASE EraseLine
    <3>1. dna' = [dna EXCEPT ![i] =
              SubSeq(dna[i], 1, j) \o SubSeq(dna[i], j + 2, Len(dna[i]))]
      BY <2>2 DEF EraseLine
    <3> QED BY <1>1, <1>2, <3>1, ErasedIsProgram
  <2>3. CASE RewriteLine
    <3>1. PICK g \in Genes :
              dna' = [dna EXCEPT ![i] = [dna[i] EXCEPT ![j + 1] = g]]
      BY <2>3 DEF RewriteLine
    <3>2. j + 1 \in 1..Len(dna[i])
      BY <1>1, <1>2
    <3> QED BY <1>2, <3>1, <3>2, RewrittenIsProgram
  <2>4. CASE KeepLine
    <3>1. dna' = [dna EXCEPT ![i] = dna[i]]
      BY <1>2, <2>4 DEF KeepLine
    <3> QED BY <1>2, <3>1
  <2> QED BY <2>1, <2>2, <2>3, <2>4
<1>5. /\ dna' \in [Species -> Program]
      /\ \A s \in Species : s # i => dna'[s] = dna[s]
  BY <1>1, <1>2, <1>4
<1>6. Typed'
  BY <1>3, <1>5 DEF IInv, Typed, frame
<1>7. (LoopsInRange /\ OneRankEach)'
  BY <1>3 DEF IInv, LoopsInRange, OneRankEach, frame
<1>8. Elite' = Elite /\ Elite \subseteq Species
  BY <1>3, EliteAreSpecies DEF Elite, frame, IInv
<1>9. EliteKept'
  <2>1. \A s \in Species : s >= maxSpecies - tournamentK => dna'[s] = dna[s]
    BY <1>1, <1>5
  <2> QED BY <1>1, <1>3, <1>8, <2>1 DEF IInv, EliteKept, frame
<1> QED BY <1>6, <1>7, <1>9 DEF IInv

LEMMA NextProgramIInv == ASSUME IInv, NextProgram PROVE IInv'
<1> USE PopulationAssumption DEF NextProgram
<1>1. i \in 0..MutatedCount - 1 /\ MutatedCount \in Nat
  BY DEF IInv, LoopsInRange, MutatedCount
<1>2. i' \in 0..maxSpecies - tournamentK - 1 /\ i' \in 0..maxSpecies
  BY <1>1, EndOfLoopInRange DEF MutatedCount
<1>3. phase' \in {"mutate", "conclude"} /\ UNCHANGED <<dna, frame>> /\ j' \in Nat
  OBVIOUS
<1>4. Typed'
  BY <1>2, <1>3 DEF IInv, Typed, frame
<1>5. (LoopsInRange /\ OneRankEach)'
  BY <1>2, <1>3 DEF IInv, LoopsInRange, OneRankEach, frame
<1>6. Elite' = Elite
  BY <1>3 DEF Elite, frame
<1>7. EliteKept'
  BY <1>3, <1>6 DEF IInv, EliteKept, frame
<1> QED BY <1>4, <1>5, <1>7 DEF IInv

LEMMA ConcludeIInv == ASSUME IInv, Conclude PROVE IInv'
<1> USE PopulationAssumption, SamplesAssumption DEF Conclude
<1>1. gen < generations /\ gen \in Nat
  BY DEF IInv, Typed, LoopsInRange
<1>2. /\ gen' \in 0..generations
      /\ phase' \in {"evaluate", "winner", "over"}
      /\ phase' # "over" => gen' < generations
  BY <1>1
<1>3. costs' \in [Species -> [species : Species, cost : Costs]]
  <2>1. 0 \in Species /\ 0 \in Costs
    BY DEF Species, Costs
  <2>2. NoCosts \in [Species -> [species : Species, cost : Costs]]
    BY <2>1 DEF NoCosts
  <2> QED BY <2>2 DEF IInv, Typed
<1>4. Typed'
  BY <1>2, <1>3 DEF IInv, Typed
<1>5. (LoopsInRange /\ OneRankEach /\ EliteKept)'
  BY <1>2 DEF LoopsInRange, OneRankEach, EliteKept
<1> QED BY <1>4, <1>5 DEF IInv

LEMMA NextIInv == ASSUME IInv, [Next]_vars PROVE IInv'
<1>1. CASE UNCHANGED vars
  BY <1>1 DEF vars, IInv, Typed, LoopsInRange, OneRankEach, EliteKept, Elite
<1>2. CASE Next
  BY <1>2, SelectionIInv, BreedingIInv, MutationIInv, NextProgramIInv,
     ConcludeIInv DEF Next
<1> QED BY <1>1, <1>2

THEOREM Invariance == Spec => []IInv
BY InitIInv, NextIInv, PTL DEF Spec

-----------------------------------------------------------------------------
(* What cost() returns.                                                    *)

(* The registers hold ints: a run's results, and the ones that are wanted. *)
RegisterFile == [1..registerCount -> Word]
RegistersAreInts ==
    \A p \in Program, x \in 0..Samples - 1 :
        Expected(x) \in RegisterFile /\ Result(p, x) \in RegisterFile

(* Wrapping gives a word and leaves a word alone.                          *)
LEMMA WrapGivesWord ==
    ASSUME NEW z \in Int
    PROVE  /\ Wrap(z) \in Word /\ (z \in Word => Wrap(z) = z)
           /\ Half \in Nat \ {0}
<1> DEFINE M == 2 * Half
<1>1. Half \in Nat \ {0}
  <2>1. 8 * WordBytes - 1 \in Nat
    BY WordBytesAssumption
  <2> QED BY <2>1, PowerOfTwo DEF Half
<1>2. M \in Nat \ {0} /\ z + Half \in Int
  BY <1>1
<1> DEFINE w == z + Half
<1> HIDE DEF M, w
<1>3. w % M \in 0..M - 1 /\ (w \in 0..M - 1 => w % M = w)
  BY <1>2 DEF w
<1>4. Wrap(z) = (w % M) - Half
  BY DEF Wrap, w, M
<1> QED BY <1>1, <1>2, <1>3, <1>4 DEF Word, w, M

(* abs() gives an int, which is negative only for the least of them.       *)
LEMMA AbsBounds ==
    ASSUME NEW d \in Word
    PROVE  /\ Abs(d) \in Int /\ (d # -Half => Abs(d) >= 0)
           /\ d = 0 => Abs(d) = 0
<1>1. Half \in Nat \ {0}
  BY WrapGivesWord
<1>2. d \in Int /\ -Half <= d /\ d <= Half - 1
  BY <1>1 DEF Word
<1> DEFINE z == IF d < 0 THEN -d ELSE d
<1>3. z \in Int /\ z >= 0 /\ (d # -Half => z \in Word) /\ (d = 0 => z = 0)
  BY <1>1, <1>2 DEF Word
<1>4. Abs(d) = Wrap(z)
  BY DEF Abs
<1> HIDE DEF z
<1>5. Wrap(z) \in Int /\ (z \in Word => Wrap(z) = z)
  BY <1>1, <1>3, WrapGivesWord DEF Word
<1>6. 0 # -Half
  BY <1>1
<1> QED BY <1>3, <1>4, <1>5, <1>6

(* A cost is an integer, 0 if the result is the expected one, and not      *)
(* negative unless a difference is the least int.                          *)
LEMMA CostBounds ==
    ASSUME RegistersAreInts, NEW p \in Program, NEW x \in 0..Samples - 1
    PROVE  /\ SampleCost(p, x) \in Int
           /\ ~Immeasurable(p, x) => SampleCost(p, x) >= 0
           /\ Result(p, x) = Expected(x) => SampleCost(p, x) = 0
<1> DEFINE N == registerCount
           Term(n) == Abs(Difference(p, x, n))
           step == [q \in (1..N) \X Int |-> q[2] + Term(q[1])]
           IsSum(f) == f = [n \in 0..N |-> IF n = 0 THEN 0 ELSE f[n - 1] + Term(n)]
           sum == CHOOSE f : IsSum(f)
<1>1. N \in Nat
  BY RegistersAssumption
<1>2. ASSUME NEW n \in 1..N
      PROVE  /\ Term(n) \in Int
             /\ ~Immeasurable(p, x) => Term(n) >= 0
             /\ Result(p, x) = Expected(x) => Term(n) = 0
  <2>1. Expected(x)[n] \in Word /\ Result(p, x)[n] \in Word
    BY DEF RegistersAreInts, RegisterFile
  <2>2. Half \in Nat \ {0} /\ 0 \in Word
    BY WrapGivesWord DEF Word
  <2>3. Expected(x)[n] \in Int /\ Result(p, x)[n] \in Int
    BY <2>1, <2>2 DEF Word
  <2> DEFINE d == Difference(p, x, n)
  <2>4. d \in Word
    BY <2>3, WrapGivesWord DEF Difference
  <2>5. Result(p, x) = Expected(x) => d = 0
    BY <2>2, <2>3, WrapGivesWord DEF Difference
  <2>6. ~Immeasurable(p, x) => d # -Half
    BY DEF Immeasurable
  <2> HIDE DEF d
  <2>7. Abs(d) \in Int /\ (d # -Half => Abs(d) >= 0) /\ (d = 0 => Abs(d) = 0)
    BY <2>4, AbsBounds
  <2> QED BY <2>5, <2>6, <2>7 DEF d
<1> HIDE DEF Term
<1>3. \A n \in 1..N, z \in Int : z + Term(n) \in Int
  BY <1>2
<1>4. step \in [(1..N) \X Int -> Int]
  BY <1>3
<1>5. PICK f : Iterates(f, N, Int, 0, step)
  <2>1. 0 \in Int
    OBVIOUS
  <2> HIDE DEF step, N
  <2> QED BY <1>1, <1>4, <2>1, Iteration
<1>6. \A n \in 0..N : f[n] = IF n = 0 THEN 0 ELSE f[n - 1] + Term(n)
  <2>1. ASSUME NEW n \in 0..N, n # 0 PROVE f[n] = f[n - 1] + Term(n)
    <3>1. n \in 1..N /\ n - 1 \in 0..N
      BY <1>1, <2>1
    <3>2. f[n - 1] \in Int
      BY <1>5, <3>1 DEF Iterates
    <3> QED BY <1>5, <3>1, <3>2 DEF Iterates
  <2> QED BY <1>5, <2>1 DEF Iterates
<1>7. IsSum(f)
  BY <1>5, <1>6 DEF Iterates
<1>8. IsSum(sum)
  BY <1>7
<1>9. SampleCost(p, x) = sum[N]
  BY DEF SampleCost, Term
<1> HIDE DEF sum
<1>10. \A n \in 0..N : sum[n] = IF n = 0 THEN 0 ELSE sum[n - 1] + Term(n)
  BY <1>8
<1> HIDE DEF IsSum
<1> DEFINE Good(z) == /\ z \in Int
                      /\ ~Immeasurable(p, x) => z >= 0
                      /\ Result(p, x) = Expected(x) => z = 0
           D == {n \in 0..N : Good(sum[n])}
<1>11. 0 \in D
  <2>1. 0 \in 0..N /\ sum[0] = 0
    BY <1>1, <1>10
  <2> QED BY <2>1
<1>12. ASSUME NEW n \in 0..N - 1, n \in D PROVE n + 1 \in D
  <2>1. n + 1 \in 0..N /\ n + 1 \in 1..N /\ n + 1 # 0 /\ (n + 1) - 1 = n
    BY <1>1
  <2>2. sum[n + 1] = sum[n] + Term(n + 1)
    BY <1>10, <2>1
  <2>3. Good(sum[n])
    BY <1>12
  <2>4. Good(sum[n + 1])
    BY <1>2, <2>1, <2>2, <2>3
  <2> QED BY <2>1, <2>4
<1> HIDE DEF D, N
<1>13. N \in D
  BY <1>1, <1>11, <1>12, BoundedInduction
<1> QED BY <1>9, <1>13 DEF D

(* Costs are integers, and so is the type invariant right.                 *)
LEMMA CostsAreInts ==
    ASSUME RegistersAreInts
    PROVE  Costs \subseteq Int
BY CostBounds DEF Costs

THEOREM TypeCorrect ==
    ASSUME RegistersAreInts
    PROVE  Spec => []TypeOK
<1>1. Costs \subseteq Int
  BY CostsAreInts
<1>2. IInv => TypeOK
  BY <1>1 DEF IInv, Typed, TypeOK, CostInfo, Program
<1> QED BY <1>2, Invariance, PTL

(* No sequence of crossovers and mutations empties a program, so that the  *)
(* unsigned dna.size() - 1 of the mutation loop never wraps around.        *)
THEOREM ProgramsSurvive == Spec => []NeverEmpty
<1>1. IInv => NeverEmpty
  BY DEF IInv, Typed, NeverEmpty, Program
<1> QED BY <1>1, Invariance, PTL

(* Crossover never writes over a parent that is still to breed, ...        *)
THEOREM EliteBreeds == Spec => []EliteBreedsUnchanged
<1>1. IInv => EliteBreedsUnchanged
  BY DEF IInv, EliteKept, EliteBreedsUnchanged
<1> QED BY <1>1, Invariance, PTL

(* ... and mutation spares the elite with the highest species numbers.     *)
THEOREM HighElite == Spec => []HighElitePersists
<1>1. IInv => HighElitePersists
  BY DEF IInv, EliteKept, HighElitePersists
<1> QED BY <1>1, Invariance, PTL

-----------------------------------------------------------------------------
(* The end of the training.                                                *)

(* What a program cost on the last sample, which is all that its cost is.  *)
LastCost(p) == SampleCost(p, Samples - 1)

(* The costs that are stored, and the one that is being taken, are those   *)
(* of the programs; once sorted, the first is no greater than any of them, *)
(* and a training whose lowest cost was 0 does not run out of generations. *)
CostsAreTrue ==
    /\ phase # "evaluate" => sample = 0
    /\ phase = "evaluate" =>
         /\ \A r \in 0..species - 1 : costs[r].cost = LastCost(dna[r])
         /\ sample > 0 => cost = SampleCost(dna[species], sample - 1)
    /\ phase = "sort" => \A r \in Species : costs[r].cost = LastCost(dna[r])
    /\ phase \notin {"evaluate", "sort"} =>
         \A s \in Species : lowestCost <= LastCost(judged[s])
    /\ phase = "over" => lowestCost # 0

(* The first of sorted costs is the least.                                 *)
LEMMA FirstIsLeast ==
    ASSUME NEW c, \A r \in Species : c[r].cost \in Int, Sorted(c), NEW r \in Species
    PROVE  c[0].cost <= c[r].cost
<1> DEFINE D == {n \in 0..maxSpecies - 1 : c[0].cost <= c[n].cost}
<1>1. 0 \in D
  BY PopulationAssumption DEF Species
<1>2. ASSUME NEW n \in 0..(maxSpecies - 1) - 1, n \in D PROVE n + 1 \in D
  <2>1. /\ 0 \in Species /\ n \in Species /\ n + 1 \in Species \ {0}
        /\ (n + 1) - 1 = n
    BY PopulationAssumption DEF Species
  <2>2. c[n].cost <= c[n + 1].cost
    BY <2>1 DEF Sorted
  <2>3. c[0].cost \in Int /\ c[n].cost \in Int /\ c[n + 1].cost \in Int
    BY <2>1
  <2>4. c[0].cost <= c[n + 1].cost
    BY <1>2, <2>2, <2>3
  <2> QED BY <2>1, <2>4 DEF Species
<1> HIDE DEF D
<1>3. 0..maxSpecies - 1 \subseteq D
  <2>1. maxSpecies - 1 \in Nat
    BY PopulationAssumption
  <2> QED BY <1>1, <1>2, <2>1, BoundedInduction
<1> QED BY <1>3 DEF D, Species

(* The lowest cost is that of a program that was judged.                   *)
FirstIsJudged ==
    phase \notin {"evaluate", "sort"} =>
        \E s \in Species : lowestCost = LastCost(judged[s])

LEMMA FirstNext ==
    ASSUME IInv, CostsAreTrue, FirstIsJudged, [Next]_vars
    PROVE  FirstIsJudged'
<1>1. CASE SortCosts
  <2>1. /\ phase = "sort" /\ costs' \in SortedCosts /\ lowestCost' = costs'[0].cost
        /\ judged' = dna
    BY <1>1 DEF SortCosts
  <2>2. 0 \in Species
    BY PopulationAssumption DEF Species
  <2>3. costs'[0] \in {costs[s] : s \in Species}
    BY <2>1, <2>2 DEF SortedCosts
  <2>4. PICK s \in Species : costs'[0] = costs[s]
    BY <2>3
  <2>5. lowestCost' = LastCost(judged'[s])
    BY <2>1, <2>4 DEF CostsAreTrue
  <2> QED BY <2>5 DEF FirstIsJudged
<1>2. CASE RunSample \/ StoreCost
  BY <1>2 DEF RunSample, StoreCost, FirstIsJudged
<1>3. CASE \/ ReplaceLosers \/ CrossOver \/ NoCrossOver \/ InsertLine \/ EraseLine
           \/ RewriteLine \/ KeepLine \/ NextProgram \/ Conclude
  <2>1. phase \notin {"evaluate", "sort"} /\ UNCHANGED <<lowestCost, judged>>
    BY <1>3 DEF ReplaceLosers, CrossOver, NoCrossOver, InsertLine, EraseLine,
          RewriteLine, KeepLine, NextProgram, Conclude, Mutating, frame
  <2> QED BY <2>1 DEF FirstIsJudged
<1>4. CASE UNCHANGED vars
  BY <1>4 DEF vars, FirstIsJudged
<1> QED BY <1>1, <1>2, <1>3, <1>4 DEF Next

LEMMA CostsInit == ASSUME Init PROVE CostsAreTrue
BY DEF Init, CostsAreTrue

LEMMA CostsNext ==
    ASSUME RegistersAreInts, IInv, CostsAreTrue, [Next]_vars
    PROVE  CostsAreTrue'
<1> USE PopulationAssumption, SamplesAssumption
<1>1. CASE RunSample
  <2>1. /\ phase = "evaluate" /\ species < maxSpecies /\ sample \in Nat
        /\ sample' = sample + 1 /\ cost' = SampleCost(dna[species], sample)
        /\ UNCHANGED <<dna, phase, species, costs, lowestCost, judged>>
    BY <1>1 DEF RunSample, IInv, Typed
  <2>2. sample' - 1 = sample
    BY <2>1
  <2> QED BY <2>1, <2>2 DEF CostsAreTrue
<1>2. CASE StoreCost
  <2>1. /\ phase = "evaluate" /\ species < maxSpecies /\ sample = Samples
        /\ costs' = [costs EXCEPT ![species] = [species |-> species, cost |-> cost]]
        /\ species' = species + 1 /\ sample' = 0
        /\ phase' = IF species + 1 = maxSpecies THEN "sort" ELSE "evaluate"
        /\ UNCHANGED <<dna, lowestCost, judged>>
    BY <1>2 DEF StoreCost
  <2>2. species \in Species /\ species \in Nat /\ DOMAIN costs = Species
    BY <2>1 DEF IInv, Typed, Species
  <2>3. cost = LastCost(dna[species])
    BY <2>1 DEF CostsAreTrue, LastCost
  <2>4. ASSUME NEW r \in 0..species PROVE costs'[r].cost = LastCost(dna[r])
    <3>1. CASE r = species
      BY <2>1, <2>2, <2>3, <3>1
    <3>2. CASE r # species
      <4>1. r \in 0..species - 1 /\ r \in Species
        BY <2>1, <2>2, <3>2 DEF Species
      <4>2. costs'[r] = costs[r]
        BY <2>1, <2>2, <3>2, <4>1
      <4> QED BY <2>1, <4>1, <4>2 DEF CostsAreTrue
    <3> QED BY <3>1, <3>2
  <2>5. species + 1 = maxSpecies => Species = 0..species
    BY <2>2 DEF Species
  <2>6. species' - 1 = species
    BY <2>1, <2>2
  <2> QED BY <2>1, <2>4, <2>5, <2>6 DEF CostsAreTrue, LastCost
<1>3. CASE SortCosts
  <2>1. /\ phase = "sort" /\ costs' \in SortedCosts /\ lowestCost' = costs'[0].cost
        /\ judged' = dna /\ phase' = "replace" /\ sample' = sample
    BY <1>3 DEF SortCosts
  <2>2. /\ Sorted(costs') /\ costs' \in [Species -> {costs[s] : s \in Species}]
        /\ \A s \in Species : \E r \in Species : costs'[r] = costs[s]
    BY <2>1 DEF SortedCosts
  <2>3. \A s \in Species : costs[s].cost = LastCost(dna[s]) /\ costs[s].cost \in Int
    <3>1. \A s \in Species : dna[s] \in Program
      BY DEF IInv, Typed
    <3>2. Samples - 1 \in 0..Samples - 1
      OBVIOUS
    <3>3. \A s \in Species : LastCost(dna[s]) \in Int
      BY <3>1, <3>2, CostBounds DEF LastCost
    <3> QED BY <2>1, <3>3 DEF CostsAreTrue
  <2>4. ASSUME NEW r \in Species PROVE costs'[r].cost \in Int
    <3>1. PICK s \in Species : costs'[r] = costs[s]
      BY <2>2
    <3> QED BY <2>3, <3>1
  <2>5. ASSUME NEW s \in Species PROVE lowestCost' <= LastCost(judged'[s])
    <3>1. PICK r \in Species : costs'[r] = costs[s]
      BY <2>2
    <3>2. costs'[0].cost <= costs'[r].cost
      BY <2>2, <2>4, FirstIsLeast
    <3> QED BY <2>1, <2>3, <3>1, <3>2
  <2> QED BY <2>1, <2>5 DEF CostsAreTrue
<1>4. CASE Conclude
  <2>1. lowestCost \in Int
    BY CostsAreInts DEF IInv, Typed
  <2>2. /\ phase = "conclude" /\ species' = 0
        /\ phase' \in {"winner", "evaluate", "over"}
        /\ phase' = "over" => lowestCost # 0
        /\ UNCHANGED <<dna, sample, cost, lowestCost, judged>>
    BY <1>4 DEF Conclude
  <2>3. sample = 0 /\ \A s \in Species : lowestCost <= LastCost(judged[s])
    BY <2>2 DEF CostsAreTrue
  <2> QED BY <2>2, <2>3 DEF CostsAreTrue
<1>5. CASE \/ ReplaceLosers \/ CrossOver \/ NoCrossOver
           \/ InsertLine \/ EraseLine \/ RewriteLine \/ KeepLine \/ NextProgram
  <2>1. /\ phase \notin {"evaluate", "sort", "over"}
        /\ phase' \notin {"evaluate", "sort", "over"}
        /\ UNCHANGED <<sample, lowestCost, judged>>
    BY <1>5 DEF ReplaceLosers, CrossOver, NoCrossOver, InsertLine, EraseLine,
          RewriteLine, KeepLine, NextProgram, Mutating, frame
  <2> QED BY <2>1 DEF CostsAreTrue
<1>6. CASE UNCHANGED vars
  BY <1>6 DEF vars, CostsAreTrue
<1> QED BY <1>1, <1>2, <1>3, <1>4, <1>5, <1>6 DEF Next

(* A program that is right on every sample costs nothing on the last, and  *)
(* its cost is found by the sort, whatever order that gives equal costs:   *)
(* so the training goes on only if a cost is negative, which takes a       *)
(* difference that abs() cannot tell.                                      *)
THEOREM PerfectAlwaysEnds ==
    ASSUME RegistersAreInts
    PROVE  Spec => []PerfectEndsTraining
<1>1. CostsAreTrue /\ IInv /\ FirstIsJudged => PerfectEndsTraining
  <2> SUFFICES ASSUME CostsAreTrue, IInv, FirstIsJudged, phase = "over",
                      NEW s \in Species, Perfect(judged[s]),
                      \A t \in Species : ~Immeasurable(judged[t], Samples - 1)
               PROVE  FALSE
    BY DEF PerfectEndsTraining
  <2>1. /\ Samples - 1 \in 0..Samples - 1
        /\ \A t \in Species : judged[t] \in Program
    BY SamplesAssumption DEF IInv, Typed
  <2>2. LastCost(judged[s]) = 0
    BY <2>1, CostBounds DEF LastCost, Perfect
  <2>3. PICK t \in Species : lowestCost = LastCost(judged[t])
    BY DEF FirstIsJudged
  <2>4. lowestCost \in Int /\ lowestCost >= 0
    BY <2>1, <2>3, CostBounds DEF LastCost
  <2>5. lowestCost # 0 /\ lowestCost <= 0
    BY <2>2 DEF CostsAreTrue
  <2> QED BY <2>4, <2>5
<1>2. Init => CostsAreTrue /\ FirstIsJudged
  BY CostsInit DEF Init, FirstIsJudged
<1>3. IInv /\ CostsAreTrue /\ FirstIsJudged /\ [Next]_vars
        => CostsAreTrue' /\ FirstIsJudged'
  BY CostsNext, FirstNext
<1> QED BY <1>1, <1>2, <1>3, Invariance, PTL DEF Spec
=============================================================================
