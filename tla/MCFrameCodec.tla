---------------------------- MODULE MCFrameCodec ----------------------------
EXTENDS FrameCodec, SequencesExt

MCCmds == {1, 1001}
MCPayloads == {<<>>, <<7>>, <<7, 0>>}
MCNoise == {0, 13, 255}
MCcrc32(p) == put_le32(FoldLeft(LAMBDA c, b : 3 * c + b + 1, 0, p) % 65536)
=============================================================================
