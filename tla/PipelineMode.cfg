\* Does --pipeline use the pipeline?
CONSTANTS
  Tokens = 2
  MaxThreads = 1
SPECIFICATION Spec
INVARIANT PipelineModeUsesPipeline
