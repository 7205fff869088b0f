---------------------- MODULE MCCompressionNegotiation ----------------------
EXTENDS CompressionNegotiation, SequencesExt

MCEncodings == {"gzip", "zstd"}
MCLayers == MCEncodings \cup {"None"}
MCServerStacks == SeqOf(MCLayers, 3)
MCClientStacks == SeqOf(MCLayers, 1)
MCAny == SUBSET MCEncodings
MCAtMostOne == {{}, {"gzip"}, {"zstd"}}
MCShapes == {<< >>, <<TRUE>>, <<FALSE, TRUE>>}

=============================================================================
