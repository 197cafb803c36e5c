----------------------------- MODULE MCTextures ------------------------------
(* The tests that sample and gather, and those that query, load and store,  *)
(* on one table of formats: a behaviour is one test of either kind.         *)
EXTENDS MCTexOracles, MCTexAccess

VARIABLES features, outcome  \* of TexAccess; outcome is "none" in a test of TexOracles
accessVars == <<features, outcome>>

A == INSTANCE TexAccess WITH
       FormatTable <- MCFormatInfo, channelValue <- MCChannelValue, pseudoRandomU32 <- MCPseudoRandom,
       Devices <- MCDevices, StencilChannels <- ZeroAndOne, kCallCount <- 20, RowAlignment <- 256, CopyAlignment <- 4,
       MaxU32 <- 2147483647, kStoreOOBWidth <- 16, StoreOOBTexels <- 256, StoreArraySide <- 4, StoreWorkgroup <- 4

SuiteInit ==
    \/ Init /\ features = {} /\ outcome = "none"
    \/ A!Init /\ swizzle = FALSE /\ tested = FALSE /\ mismatches = {}
SuiteNext ==
    \/ outcome = "none" /\ Next /\ UNCHANGED accessVars
    \/ A!Next /\ UNCHANGED <<swizzle, tested, mismatches>>
Suite == SuiteInit /\ [][SuiteNext]_<<vars, accessVars>>

\* The properties of TexAccess, under the names of their own module: no test asks for what WebGPU refuses,
NoTestIsMalformed == A!NoTestIsMalformed
\* and no conforming device is blamed by a test that queries,
ConformingQueriesPass == A!ConformingQueriesPass
\* loads,
ConformingLoadsPass == A!ConformingLoadsPass
\* or stores.
ConformingStoresPass == A!ConformingStoresPass
=============================================================================
