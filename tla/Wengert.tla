------------------------------ MODULE Wengert ------------------------------
(***************************************************************************)
(* The reverse-mode tape for r (A + x B + x^2 C): recording of the linear  *)
(* arithmetic as a graph, pruning, ordering by reverse depth, and one pass *)
(* from the constraints back to the columns.  Nodes are numbered from      *)
(* zero; node 0 is the constant one, and is also where a handle without a  *)
(* node points.                                                            *)
(*                                                                         *)
(* The pass is linear in the weights, which are therefore kept symbolic: a *)
(* result is a sum of weights, a function from constraints and matrices to *)
(* integers, and equal sums are equal modulo every prime.  The Montgomery  *)
(* form and the shared table of coefficients are abstracted.               *)
(***************************************************************************)
EXTENDS FixedIntegers, Sequences, SequencesExt

CONSTANT ChunkSize  \* OUTPUT_CHUNK_SIZE, 4096 in the code

ASSUME ChunkAssumption == ChunkSize \in Nat \ {0}

Kinds == {"A", "B", "C"}

NoNode == -1

\* A node: its terms, none for an input.
Input == <<>>

NewRecorder ==
    [nodes |-> <<Input>>, input_nodes |-> <<0>>, roots |-> <<>>,
     power_groups |-> <<>>, constraints |-> 0]

\* WengertValue: a node and the coefficient it is scaled by, of some width.
Handle(node, coefficient) == [node |-> node, coefficient |-> coefficient]

raw_term(limbs, value) == Handle(value.node, Number(limbs, value.coefficient))

push_input(r) ==
    [r EXCEPT !.nodes = Append(@, Input), !.input_nodes = Append(@, Len(r.nodes))]

push_sum(r, terms) == [r EXCEPT !.nodes = Append(@, terms)]

Made(recorder, value) == [recorder |-> recorder, value |-> value]

tape_add(r, limbs, lhs, rhs) ==
    IF lhs.coefficient = 0 THEN Made(r, rhs)
    ELSE IF rhs.coefficient = 0 THEN Made(r, lhs)
    ELSE IF lhs.node = rhs.node
    THEN Made(r, Handle(lhs.node, z_add(limbs, lhs.coefficient, rhs.coefficient)))
    ELSE Made(push_sum(r, <<raw_term(limbs, lhs), raw_term(limbs, rhs)>>),
              Handle(Len(r.nodes), 1))

tape_neg(limbs, value) == [value EXCEPT !.coefficient = z_neg(limbs, @)]

tape_mul(limbs, value, c) == [value EXCEPT !.coefficient = z_mul(limbs, @, c)]

sum_terms(r, limbs, values) ==
    LET terms == SelectSeq(values, LAMBDA v : v.coefficient # 0)
    IN  IF terms = <<>> THEN Made(r, Handle(0, 0))
        ELSE IF Len(terms) = 1 THEN Made(r, terms[1])
        ELSE Made(push_sum(r, [k \in DOMAIN terms |-> raw_term(limbs, terms[k])]),
                  Handle(Len(r.nodes), 1))

\* A lift of n bits and of the low ones of them.  From two bits on it is also
\* a power group, unless its low part is a bit by itself.
tape_bitz_unsigned(r, limbs, n, low) ==
    LET recorded == FoldLeft(LAMBDA s, k : push_input(s), r, [k \in 1..n |-> k])
        lifted == [k \in 1..n |-> Handle(Len(r.nodes) + k - 1, Z(limbs, 2 ^ (k - 1)))]
        full == sum_terms(recorded, limbs, lifted)
        part == IF low = n THEN full
                ELSE sum_terms(full.recorder, limbs, SubSeq(lifted, 1, low))
        whole == low = 0 \/ low = n
        group == [first_column |-> Len(r.input_nodes),
                  len |-> n,
                  low_len |-> IF whole THEN 0 ELSE low,
                  full_node |-> full.value.node,
                  low_node |-> IF whole THEN NoNode ELSE part.value.node]
    IN  [recorder |-> IF n >= 2 /\ low # 1
                      THEN [part.recorder EXCEPT !.power_groups = Append(@, group)]
                      ELSE part.recorder,
         full |-> full.value, low |-> part.value]

tape_assert_r1c(r, limbs, a, b, c) ==
    LET root(kind, value) == [row |-> r.constraints + 1, kind |-> kind, term |-> raw_term(limbs, value)]
    IN  [r EXCEPT !.constraints = @ + 1,
                  !.roots = @ \o <<root("A", a), root("B", b), root("C", c)>>]
-----------------------------------------------------------------------------
(***************************************************************************)
(* from_recorder.                                                          *)
(***************************************************************************)
NodeIds(r) == 0 .. Len(r.nodes) - 1

\* The places where a node is used with a coefficient that is not zero.
UsesBy(r, target, node) ==
    {k \in DOMAIN r.nodes[target + 1] :
        r.nodes[target + 1][k].node = node /\ r.nodes[target + 1][k].coefficient # 0}

RootsAt(r, node) ==
    {k \in DOMAIN r.roots : r.roots[k].term.node = node /\ r.roots[k].term.coefficient # 0}

\* Uses come after what they use, so a pass from the last node is enough.
Reachable(r) ==
    LET reached[node \in NodeIds(r)] ==
            \/ RootsAt(r, node) # {}
            \/ \E target \in node + 1 .. Len(r.nodes) - 1 :
                  UsesBy(r, target, node) # {} /\ reached[target]
    IN  {node \in NodeIds(r) : reached[node]}

GroupInputs(r) ==
    UNION {{r.input_nodes[column + 1] : column \in g.first_column .. g.first_column + g.len - 1} :
             g \in ToSet(r.power_groups)}

Live(r) == Reachable(r) \ GroupInputs(r)

\* A node is one level after the last of its uses.
Depth(r, live) ==
    LET depth[node \in NodeIds(r)] ==
            LET after == {depth[target] + 1 : target \in
                            {t \in live : t > node /\ UsesBy(r, t, node) # {}}}
            IN  IF after = {} THEN 0 ELSE Max(after)
    IN  depth

from_recorder(r) ==
    LET live == Live(r)
        sums == {node \in live : r.nodes[node + 1] # Input}
        depth == Depth(r, live)
        last == IF sums = {} THEN -1 ELSE Max({depth[node] : node \in sums})
        kept(node) == IF node \in live THEN node ELSE NoNode
    IN  [constraints |-> r.constraints,
         input_nodes |-> [c \in DOMAIN r.input_nodes |-> kept(r.input_nodes[c])],
         levels |-> [l \in 1 .. last + 1 |-> {node \in sums : depth[node] = l - 1}],
         edges |-> [node \in live |->
            UNION {{[dependent |-> target, place |-> k,
                     coefficient |-> r.nodes[target + 1][k].coefficient] :
                       k \in UsesBy(r, target, node)} : target \in live}],
         roots |-> [node \in live |-> {r.roots[k] : k \in RootsAt(r, node)}],
         power_groups |-> [g \in DOMAIN r.power_groups |->
            [r.power_groups[g] EXCEPT !.full_node = kept(@), !.low_node = kept(@)]]]
-----------------------------------------------------------------------------
(***************************************************************************)
(* The pass.                                                               *)
(***************************************************************************)
NoWeight(rows) == [w \in (1..rows) \X Kinds |-> 0]
Weight(rows, row, kind) == [w \in (1..rows) \X Kinds |-> IF w = <<row, kind>> THEN 1 ELSE 0]
Plus(a, b) == [w \in DOMAIN a |-> a[w] + b[w]]
Times(a, n) == [w \in DOMAIN a |-> a[w] * n]

\* ReverseContext::evaluate.
evaluate(tape, node, adjoints) ==
    LET none == NoWeight(tape.constraints)
        fromRoots == FoldSet(LAMBDA root, sum :
                        Plus(sum, Times(Weight(tape.constraints, root.row, root.kind),
                                        root.term.coefficient)),
                      none, tape.roots[node])
    IN  FoldSet(LAMBDA edge, sum : Plus(sum, Times(adjoints[edge.dependent], edge.coefficient)),
                fromRoots, tape.edges[node])

\* Level by level; a level reads the levels before it.
Adjoints(tape) ==
    FoldLeft(LAMBDA prior, level : prior @@ [node \in level |-> evaluate(tape, node, prior)],
             <<>>, tape.levels)

\* Columns from zero, start included and end not.
ScalarColumns(tape, adjoints, start, end) ==
    [k \in 1 .. end - start |->
        LET node == tape.input_nodes[start + k]
        IN  IF node = NoNode THEN NoWeight(tape.constraints) ELSE evaluate(tape, node, adjoints)]

\* Mistake: the powers of a segment start again at one.
GroupColumnsRestart(tape, adjoints, group, start, end) ==
    LET read(node) == IF node = NoNode THEN NoWeight(tape.constraints) ELSE adjoints[node]
        base == IF start < group.first_column + group.low_len
                THEN Plus(read(group.full_node), read(group.low_node))
                ELSE read(group.full_node)
    IN  [k \in 1 .. end - start |-> Times(base, 2 ^ (k - 1))]

\* A segment of a power group, inside or outside of its low part.
GroupColumns(tape, adjoints, group, start, end) ==
    LET read(node) == IF node = NoNode THEN NoWeight(tape.constraints) ELSE adjoints[node]
        base == IF start < group.first_column + group.low_len
                THEN Plus(read(group.full_node), read(group.low_node))
                ELSE read(group.full_node)
    IN  [k \in 1 .. end - start |-> Times(base, 2 ^ (start - group.first_column + k - 1))]

Least(a, b) == IF a < b THEN a ELSE b

\* evaluate_output_chunk: alternates between columns on their own and segments
\* of groups, from the first group that does not end before the chunk.
OutputChunk(tape, adjoints, start, end) ==
    LET groups == tape.power_groups
        End(g) == groups[g].first_column + groups[g].len
        fill[column \in start..end, g \in 1 .. Len(groups) + 1] ==
            IF column = end THEN <<>>
            ELSE IF g > Len(groups) THEN ScalarColumns(tape, adjoints, column, end)
            ELSE IF column < groups[g].first_column
            THEN LET stop == Least(groups[g].first_column, end)
                 IN  ScalarColumns(tape, adjoints, column, stop) \o fill[stop, g]
            ELSE LET lowEnd == groups[g].first_column + groups[g].low_len
                     stop == Least(IF column < lowEnd THEN Least(lowEnd, End(g)) ELSE End(g), end)
                 IN  GroupColumns(tape, adjoints, groups[g], column, stop)
                       \o fill[stop, IF stop = End(g) THEN g + 1 ELSE g]
    IN  fill[start, Cardinality({g \in DOMAIN groups : End(g) <= start}) + 1]

\* PreparedWengertEvaluator::apply: one sum of weights per column.
tape_apply(tape) ==
    LET adjoints == Adjoints(tape)
        columns == Len(tape.input_nodes)
        chunks == (columns + ChunkSize - 1) \div ChunkSize
    IN  FlattenSeq([i \in 1..chunks |->
            OutputChunk(tape, adjoints, (i - 1) * ChunkSize, Least(i * ChunkSize, columns))])
-----------------------------------------------------------------------------
(***************************************************************************)
(* MaterializedAbc: the same sums from the matrices, given by their rows   *)
(* of entries <<column, coefficient>>.                                     *)
(***************************************************************************)
CoefficientClass(n) == IF n = 1 THEN "One" ELSE IF n = -1 THEN "NegativeOne" ELSE "General"

\* The entries of one column, by matrix and row.
from_matrices(abc, columns) ==
    LET entries(column, kind) ==
            UNION {{[row |-> row, kind |-> kind, class |-> CoefficientClass(abc[kind][row][k][2]),
                     coefficient |-> abc[kind][row][k][2]] :
                       k \in {j \in DOMAIN abc[kind][row] : abc[kind][row][j][1] = column}} :
                     row \in DOMAIN abc[kind]}
    IN  [c \in 1..columns |-> UNION {entries(c - 1, kind) : kind \in Kinds}]

abc_apply(sparse, rows) ==
    LET contribution(entry) ==
            LET source == Weight(rows, entry.row, entry.kind)
            IN  CASE entry.class = "One" -> source
                  [] entry.class = "NegativeOne" -> Times(source, -1)
                  [] entry.class = "General" -> Times(source, entry.coefficient)
    IN  [c \in DOMAIN sparse |->
            FoldSet(LAMBDA entry, sum : Plus(sum, contribution(entry)), NoWeight(rows), sparse[c])]
=============================================================================
