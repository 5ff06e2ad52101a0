------------------------- MODULE MCLibraryLifecycle -------------------------
EXTENDS LibraryLifecycle

Program(build, engines, habits) == [build |-> build, engines |-> engines, habits |-> habits]

\* Every build, with and without engines, and a program that does as it likes.
SmallPrograms ==
    {Program("OpenSSL 1.0", Engines, {}),
     Program("OpenSSL 1.1", Engines, {}),
     Program("OpenSSL 1.1", {"none"}, {"out of memory"}),
     Program("OpenSSL 1.1", {"none", "named"}, Habits),
     Program("OpenSSL 3", Engines, {}),
     Program("BoringSSL", {"none", "named"}, {})}

\* Nothing tells the threads apart.
Interchangeable == Permutations(Threads)
=============================================================================
