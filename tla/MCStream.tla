------------------------------- MODULE MCStream -------------------------------
EXTENDS BluetoothStreamOut, TLC

\* The streams of a session are interchangeable.
Symmetric == Permutations(Streams)

\* So are the threads of the binder pool.
SymmetricPool == Permutations(BinderThreads)
===============================================================================
