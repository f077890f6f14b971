------------------------------ MODULE Genetic ------------------------------
(***************************************************************************)
(* GeneticAlgorithm::train and GeneticAssemblyRatz::geneticOperations of   *)
(* src/Evolutionary Assembly/include/Genetic.h.  A program (dna_t) is a    *)
(* sequence of genes, a gene one line of assembly; the registers that a    *)
(* run of it on a sample leaves are the constant Result.  Random draws are *)
(* nondeterministic choices.  Costs stay undivided: postIterateCost        *)
(* divides each by the same x.size().                                      *)
(***************************************************************************)
EXTENDS CpuWords, Sequences

CONSTANTS
    Genes,              \* what getRandomSingleDna can return
    RandomDna,          \* what getRandomDna can return
    maxSpecies, tournamentK, generations,
    Samples,            \* x.size()
    registerCount,      \* registers that getResult returns, 16 in the code
    Expected(_),        \* y: the registers wanted on a sample
    Result(_, _),       \* getResult: those a program leaves on a sample
    MaxLength           \* bound: mutation adds no line to a longer program

Species == 0..maxSpecies - 1
Program == Seq(Genes) \ {<<>>}

ASSUME PopulationAssumption ==
    /\ maxSpecies \in Nat /\ tournamentK \in Nat
    /\ 0 < tournamentK /\ tournamentK < maxSpecies
ASSUME SamplesAssumption ==
    Samples \in Nat \ {0} /\ generations \in Nat \ {0}
ASSUME DnaAssumption == RandomDna \subseteq Program
ASSUME RegistersAssumption == registerCount \in Nat

VARIABLES
    dna,            \* vector<dna_t>, indexed by species
    phase, gen,     \* where train is, and its generation
    species, sample, cost,  \* its loops over species and samples
    costs,          \* vector<costInfo>, sorted by the end of "evaluate"
    lowestCost,
    population,     \* the elite's species numbers, shuffled
    i, j,           \* loop counters of geneticOperations
    crossOverCount,
    judged          \* history: dna as it was when costs were taken

vars == <<dna, phase, gen, species, sample, cost, costs, lowestCost,
          population, i, j, crossOverCount, judged>>

CostInfo == [species : Species, cost : Int]

TypeOK ==
    /\ dna \in [Species -> Seq(Genes)]
    /\ phase \in {"evaluate", "sort", "replace", "crossover", "mutate",
                  "conclude", "winner", "over"}
    /\ gen \in 0..generations /\ species \in 0..maxSpecies
    /\ sample \in 0..Samples /\ cost \in Int /\ lowestCost \in Int
    /\ costs \in [Species -> CostInfo]
    /\ population \in [0..tournamentK - 1 -> Species]
    /\ i \in 0..maxSpecies /\ j \in Nat
    /\ crossOverCount \in 0..maxSpecies - tournamentK - 1
    /\ judged \in [Species -> Seq(Genes)]

(* The loop of train enters a generation with the costs {0, 0}.            *)
NoCosts == [s \in Species |-> [species |-> 0, cost |-> 0]]

Init ==
    /\ dna \in [Species -> RandomDna]
    /\ phase = "evaluate" /\ gen = 0
    /\ species = 0 /\ sample = 0 /\ cost = 0
    /\ costs = NoCosts /\ lowestCost = 0
    /\ population = [k \in 0..tournamentK - 1 |-> 0]
    /\ i = 0 /\ j = 0 /\ crossOverCount = 0
    /\ judged = dna

-----------------------------------------------------------------------------
(* Selection.                                                              *)

(* cost(): the sum, a double, of the abs(expected - result), which are     *)
(* ints: the difference can overflow, and abs(INT_MIN) is INT_MIN.         *)
Difference(p, x, k) == Wrap(Expected(x)[k] - Result(p, x)[k])
Abs(d) == Wrap(IF d < 0 THEN -d ELSE d)
SampleCost(p, x) ==
    LET sum[n \in 0..registerCount] ==
            IF n = 0 THEN 0 ELSE sum[n - 1] + Abs(Difference(p, x, n))
    IN sum[registerCount]

(* getResult and cost() on one sample: *currentCost is assigned.           *)
RunSample ==
    /\ phase = "evaluate" /\ species < maxSpecies /\ sample < Samples
    /\ cost' = SampleCost(dna[species], sample)
    /\ sample' = sample + 1
    /\ UNCHANGED <<dna, phase, gen, species, costs, lowestCost, population, i,
                   j, crossOverCount, judged>>

StoreCost ==
    /\ phase = "evaluate" /\ species < maxSpecies /\ sample = Samples
    /\ costs' = [costs EXCEPT ![species] = [species |-> species, cost |-> cost]]
    /\ species' = species + 1 /\ sample' = 0 /\ cost' = 0
    /\ phase' = IF species + 1 = maxSpecies THEN "sort" ELSE "evaluate"
    /\ UNCHANGED <<dna, gen, lowestCost, population, i, j, crossOverCount, judged>>

(* std::sort with compare: any order of equal costs.                       *)
Sorted_Descending(c) == \A r \in Species \ {0} : c[r - 1].cost >= c[r].cost
Sorted(c) == \A r \in Species \ {0} : c[r - 1].cost <= c[r].cost
SortedCosts ==
    {c \in [Species -> {costs[s] : s \in Species}] :
        Sorted(c) /\ \A s \in Species : \E r \in Species : c[r] = costs[s]}

SortCosts ==
    /\ phase = "sort"
    /\ costs' \in SortedCosts
    /\ lowestCost' = costs'[0].cost
    /\ judged' = dna
    /\ phase' = "replace"
    /\ UNCHANGED <<dna, gen, species, sample, cost, population, i, j,
                   crossOverCount>>

(* Ranks tournamentK and below lose their programs; the elite is shuffled. *)
Elite == {costs[r].species : r \in 0..tournamentK - 1}
Losers == {costs[r].species : r \in tournamentK..maxSpecies - 1}

ReplaceLosers ==
    /\ phase = "replace"
    /\ \E new \in [Losers -> RandomDna] :
        dna' = [s \in Species |-> IF s \in Losers THEN new[s] ELSE dna[s]]
    /\ population' \in {p \in [0..tournamentK - 1 -> Elite] :
                            \A s \in Elite : \E k \in DOMAIN p : p[k] = s}
    /\ i' = 0 /\ crossOverCount' = 0
    /\ phase' = "crossover"
    /\ UNCHANGED <<gen, species, sample, cost, costs, lowestCost, j, judged>>

-----------------------------------------------------------------------------
(* Crossover, for each member of the population in turn.                   *)

(* irand(n): 0 to n - 1, and 0 for n = 0.                                  *)
Irand(n) == IF n > 0 THEN 0..n - 1 ELSE {0}

(* The species whose program an offspring takes.                           *)
Offspring_FromTheTop(count) == costs[count].species
Offspring(count) == costs[tournamentK + count].species

NextCount(count) == (count + 1) % (maxSpecies - tournamentK)

(* p with the lines start+1..end of q; a single offspring, both pointers   *)
(* being the same, ends as a clone of parentB.                             *)
Spliced(p, q, start, end) ==
    [k \in DOMAIN p |-> IF k > start /\ k <= end THEN q[k] ELSE p[k]]

EndOfLoop(next) == IF i + 1 = next THEN 0 ELSE i + 1

(* Two offspring from the lines start+1..end of two parents.               *)
Breed(parentA, parentB, start, end) ==
    LET again == NextCount(crossOverCount)
    IN /\ dna' = [dna EXCEPT
               ![Offspring(crossOverCount)] = Spliced(parentA, parentB, start, end),
               ![Offspring(again)] =
                   IF again = crossOverCount THEN parentB
                   ELSE Spliced(parentB, parentA, start, end)]
       /\ crossOverCount' = NextCount(again)

MinProgSize(p, q) == IF Len(p) < Len(q) THEN Len(p) ELSE Len(q)

CrossOver ==
    /\ phase = "crossover"
    /\ \E b \in Irand(tournamentK - 1) :
        LET parentA == dna[population[i]]
            parentB == dna[population[b]]
            size == MinProgSize(parentA, parentB)
        IN \E start \in Irand(size - 1) : \E span \in Irand(size - start) :
               Breed(parentA, parentB, start, start + span)
    /\ i' = EndOfLoop(tournamentK) /\ j' = 0
    /\ phase' = IF i' = 0 THEN "mutate" ELSE "crossover"
    /\ UNCHANGED <<gen, species, sample, cost, costs, lowestCost, population,
                   judged>>

NoCrossOver ==
    /\ phase = "crossover"
    /\ i' = EndOfLoop(tournamentK) /\ j' = 0
    /\ phase' = IF i' = 0 THEN "mutate" ELSE "crossover"
    /\ UNCHANGED <<dna, gen, species, sample, cost, costs, lowestCost,
                   population, crossOverCount, judged>>

-----------------------------------------------------------------------------
(* Mutation, of the species with the lowest numbers, line by line: j is    *)
(* the loop counter, 0-based, and the last line is never visited.          *)

MutatedCount_Everyone == maxSpecies
MutatedCount == maxSpecies - tournamentK

LastLine_Included(s) == Len(dna[s])
LastLine(s) == Len(dna[s]) - 1

Mutating == phase = "mutate" /\ j < LastLine(i)

frame == <<gen, species, sample, cost, costs, lowestCost, population,
           crossOverCount, judged>>

(* insert before line j; j-- and the loop's j++ visit the new line next.   *)
InsertLine ==
    /\ Mutating /\ Len(dna[i]) < MaxLength
    /\ \E g \in Genes :
        dna' = [dna EXCEPT ![i] =
                   SubSeq(@, 1, j) \o <<g>> \o SubSeq(@, j + 1, Len(@))]
    /\ UNCHANGED <<phase, i, j, frame>>

(* erase line j; j++ twice.                                                *)
EraseLine ==
    /\ Mutating
    /\ dna' = [dna EXCEPT ![i] = SubSeq(@, 1, j) \o SubSeq(@, j + 2, Len(@))]
    /\ j' = j + 2
    /\ UNCHANGED <<phase, i, frame>>

(* Line j is left, redrawn or rewritten with other arguments.              *)
RewriteLine ==
    /\ Mutating
    /\ \E g \in Genes : dna' = [dna EXCEPT ![i][j + 1] = g]
    /\ j' = j + 1
    /\ UNCHANGED <<phase, i, frame>>

KeepLine ==
    /\ Mutating
    /\ j' = j + 1
    /\ UNCHANGED <<dna, phase, i, frame>>

NextProgram ==
    /\ phase = "mutate" /\ j >= LastLine(i)
    /\ i' = EndOfLoop(MutatedCount) /\ j' = 0
    /\ phase' = IF i' = 0 THEN "conclude" ELSE "mutate"
    /\ UNCHANGED <<dna, frame>>

(* A lowest cost of zero ends the training; what is printed is dna, which  *)
(* has been mutated since it was judged.                                   *)
Conclude ==
    /\ phase = "conclude"
    /\ gen' = IF lowestCost = 0 THEN gen ELSE gen + 1
    /\ phase' = IF lowestCost = 0 THEN "winner"
                ELSE IF gen + 1 < generations THEN "evaluate" ELSE "over"
    /\ species' = 0 /\ costs' = IF phase' = "evaluate" THEN NoCosts ELSE costs
    /\ UNCHANGED <<dna, sample, cost, lowestCost, population, i, j,
                   crossOverCount, judged>>

Next ==
    \/ RunSample \/ StoreCost \/ SortCosts \/ ReplaceLosers
    \/ CrossOver \/ NoCrossOver
    \/ InsertLine \/ EraseLine \/ RewriteLine \/ KeepLine \/ NextProgram
    \/ Conclude

Spec == Init /\ [][Next]_vars

-----------------------------------------------------------------------------
(* No program is ever empty: mutation computes dna.size() - 1 unsigned and *)
(* crossover draws from it.                                                *)
NeverEmpty == \A s \in Species : dna[s] # <<>>

(* "mutation, crossover, and kill the bad ones" (Genetic.h:193): until     *)
(* mutation starts the elite is what it was when it was judged; offspring  *)
(* only take the losers' places.                                           *)
EliteBreedsUnchanged ==
    phase = "crossover" => \A s \in Elite : dna[s] = judged[s]

(* Mutation then spares the elite with high species numbers.               *)
HighElitePersists ==
    phase = "conclude" =>
        \A s \in Elite : s >= maxSpecies - tournamentK => dna[s] = judged[s]

(* Programs that do what is wanted, and programs whose result in some      *)
(* register is INT_MIN away from it, which no abs() can tell.              *)
Perfect(p) == \A x \in 0..Samples - 1 : Result(p, x) = Expected(x)
Immeasurable(p, x) == \E k \in 1..registerCount : Difference(p, x, k) = -Half

(* A program that is right on every sample ends the training, unless a     *)
(* program is so wrong on the last that its cost can be negative.          *)
PerfectEndsTraining ==
    phase = "over" =>
        \/ \A s \in Species : ~Perfect(judged[s])
        \/ \E s \in Species : Immeasurable(judged[s], Samples - 1)

=============================================================================
