--------------------------- MODULE MCFrameStream ---------------------------
EXTENDS FrameStream
MCPayloads == {<<>>, <<1, 6, 3>>}
MCLogs == {<<3>>}
MCTexts == {<<3>>, <<4, 4, 3, 3>>}
MCNoise == {0, 4, 5, 7}
=============================================================================
