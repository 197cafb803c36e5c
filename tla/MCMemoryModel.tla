--------------------------- MODULE MCMemoryModel ---------------------------
(* Three invocations in one workgroup, or two workgroups of two.           *)
EXTENDS MemoryModel

Test(n, m, t) == [name |-> n, memType |-> m, testType |-> t]
Sizes(inter, intra) == [t \in Types |-> IF t = "inter" THEN inter ELSE intra]

MCX == Sizes(1, 3)
MCTesting == Sizes(2, 1)
MCMost == Sizes(3, 2)
MCPermuteFirst == Sizes(1, 2)
MCPermuteSecond == Sizes(1, 2)

MCSuite ==
    {Test(n, "atomic_storage", "intra") : n \in {"message_passing", "load_buffer", "read"}}
      \cup {Test(n, "atomic_workgroup", "intra") : n \in {"store", "two_plus_two", "cowr", "corw2"}}
      \cup {Test(n, "atomic_storage", "inter") :
              n \in {"store_buffer", "corr", "coww", "cowr", "corw1", "corw2", "atomicity"}}
      \cup {Test("rw", "non_atomic_storage", "intra"), Test("wr", "non_atomic_workgroup", "intra"),
            Test("ww", "non_atomic_texture", "intra")}
StressSuite == {Test("ww", "non_atomic_storage", "intra")}
============================================================================
