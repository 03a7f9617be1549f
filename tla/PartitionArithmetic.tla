------------------------- MODULE PartitionArithmetic ------------------------
(***************************************************************************)
(* What the partition selectors of libtokamap work on: the directories     *)
(* below a group, the integers their names stand for, and C++ int.         *)
(***************************************************************************)
EXTENDS Integers, Sequences

CONSTANTS
    None,        \* absent value
    Half,        \* an int holds -Half .. Half - 1: 2^31 in the code
    Texts,       \* names and strings that no int prints as
    Leading,     \* [Texts -> the integer std::stoi reads there, None: it throws]
    Tree,        \* the directories there are, each a sequence of names
    Names,       \* names a directory below a group can have
    Attributes   \* names of attributes

\* An integer stands for its decimal form, as std::to_string prints it.
Ints == -Half .. Half - 1
IntMin == -Half
IntMax == Half - 1

ASSUME ArithmeticAssumption ==
    /\ Half \in Nat \ {0}
    /\ Texts \cap Int = {} /\ None \notin Int /\ None \notin Names
    /\ None \notin [kind: {"integer", "string", "other"}, is: Int \cup Texts]
    /\ Names \subseteq Int \cup Texts
    /\ Leading \in [Texts -> Ints \cup {None}]

Selectors == {"MAX_BELOW", "MIN_ABOVE", "EXACT", "CLOSEST"}
\* JSON values, by the tests find_partition_directory makes of them.
Values    == [kind: {"integer"}, is: Int] \cup [kind: {"string", "other"}, is: Int \cup Texts]
Partition == [attribute: Attributes, selector: Selectors]

\* The value modulo the width of an int: get<int>() of a wider JSON integer, and
\* what two's complement leaves of an int sum that overflows.
ToInt(v) == IF v \in Ints THEN v ELSE ((v + Half) % (2 * Half)) - Half

\* std::stoi of a directory's name.
Number(name) == IF name \in Texts THEN Leading[name]
                ELSE IF name \in Ints THEN name ELSE None

Subdirectories(dir) == {n \in Names : Append(dir, n) \in Tree}

\* The two overloads of select_subdirectory, by the type of the attribute.
Accepts(kind, selector) == \/ kind = "integer" /\ selector \in Selectors
                           \/ kind = "string" /\ selector = "EXACT"

=============================================================================
