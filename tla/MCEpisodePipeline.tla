------------------------- MODULE MCEpisodePipeline -------------------------
\* EpisodePipeline for TLC.  A lapse can add at most one script job and one tts
\* job to the three an episode needs, so 5 ids are as many as 1 lapse uses.
EXTENDS EpisodePipeline, TLC

CONSTANTS r1, r2

RunSymmetry == Permutations({r1, r2})

=============================================================================
