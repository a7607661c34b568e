----------------------------- MODULE Inventory -----------------------------
(***************************************************************************)
(* Target lists (fleet/inventory.go): reading one, and the filters on it.  *)
(* An inventory is the sequence of the names it was read as; a line is an  *)
(* opaque value with its lowercase form.                                   *)
(***************************************************************************)
EXTENDS Subsequences

CONSTANTS
    Line,         \* the lines that occur, trimmed
    Ignored,      \* blank lines and comments
    Lower,        \* the lowercase form of each line
    Covers,       \* the lowercase names that each glob pattern matches
    Malformed     \* the patterns that path.Match refuses

ASSUME LineAssumption ==
    /\ Ignored \subseteq Line /\ DOMAIN Lower = Line
    /\ Malformed \cap DOMAIN Covers = {}

\* LoadInventory and InventoryFromLines: the first line of each name.
LoadInventory(lines) ==
    Keep(lines, {i \in DOMAIN lines :
        /\ lines[i] \notin Ignored
        /\ \A j \in 1..(i - 1) : lines[j] \in Ignored \/ Lower[lines[j]] # Lower[lines[i]]})

\* Match, where no pattern is malformed; without patterns it keeps everything.
Match(inv, patterns) ==
    IF patterns = {} THEN inv
    ELSE Keep(inv, {i \in DOMAIN inv : \E p \in patterns : Lower[inv[i]] \in Covers[p]})

\* Shuffle with any source of randomness.
Shuffles(inv) ==
    {[i \in DOMAIN inv |-> inv[p[i]]] : p \in Bijection(DOMAIN inv, DOMAIN inv)}
=============================================================================
