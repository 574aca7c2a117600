---------------------------- MODULE MCAiPipeline ----------------------------
EXTENDS AiPipeline, TLC

\* one subscription, whose case the thread is about
OneSub == {1}
TheCase == <<1, 1>>
Symmetric == Permutations(Messages) \union Permutations(Workers)
=============================================================================
