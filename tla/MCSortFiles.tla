----------------------------- MODULE MCSortFiles -----------------------------
EXTENDS SortFiles
MCContents == {<<>>, <<2>>, <<3, 1>>, <<2, 1, 1>>, <<1, 3, 2, 1>>, <<2, 0, 1, 0, 2>>}
=============================================================================
