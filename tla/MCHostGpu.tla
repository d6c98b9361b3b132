------------------------------ MODULE MCHostGpu ------------------------------
(* The executor on a small instance, for TLC: caches one to three entries deep. *)
EXTENDS HostGpu, TLC

Triangle(e) == [vs |-> "v1", fs |-> "f", entry |-> e, mesh |-> None, depth |-> FALSE,
                bufs |-> 0, texs |-> <<>>, size |-> "s1"]
Mesh(m, e, b, t) == [vs |-> "v2", fs |-> "f", entry |-> e, mesh |-> m, depth |-> TRUE,
                     bufs |-> b, texs |-> t, size |-> "s1"]
\* A bare triangle, meshes drawn with two entry points of one module, and two sizes of set.
MCDraws == {Triangle("main"),
            Mesh("m1", "main", 0, <<"t1">>),
            Mesh("m2", "alt", 0, <<"t1">>),
            Mesh("m1", "main", 1, <<"t1", "t2", "t3">>)}
MCEntries == {"present", "zerocopy", "triangle", "convert"}
MCCap == [pipelines |-> 2, modules |-> 3, scratch |-> 1, geoms |-> 1, texs |-> 2,
          layouts |-> 1, imports |-> 1]

BufSymmetry == Permutations(Bufs)

\* The same module asked for an entry point that it has and for one that it has not.
MCBadEntry == {Triangle("main"), Triangle("no_such_entry")}

=============================================================================
