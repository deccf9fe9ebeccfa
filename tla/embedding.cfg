CONSTANTS
  PatchSize = 2
  Pool = 2
  MaxPixels = 200
  FramePixels = 100
  MaxSampled = 4
  MaxSource = 12
  MaxRate = 3
  MaxSeconds = 9
  Hop = 2
  FrameLength = 4
  PadMultiple = 3
  MaxSamples = 60
  Freq = 3
  Chunk = 2
  ContextLeft = 3
  KernelSize = 2
  AudioLayers = 2
  Lanes = 2
  Levels = 4
  MinPower = 1
  Ilp = 2
  ChunkVectors = 2
  Longest = 128
  Prime = 12289
  Root = 10302
  FftLength = 128
  Backends = {"cpu", "gpu", "coreml", "mlx"}
  Inputs <- Calls
  ImageTokens = 6
  VideoTokens = 3
  DefaultVideo = 2
  TableSize = 12
  MaxBytes = 4
  MaxText = 30
  MaxTokens = 24
  CoremlTokens = 12
  CoremlSamples = 40
  MelFrames = 32
  Widths = {4, 6, 8, 12}
  Batch = 3
  Window = 2
  LayerTypes <- Layers
  Sizes = {1, 11, 45}
  ByteBits = 2
  Register = 6
  MaxLength = 3
  Restarts = {1}
SPECIFICATION Spec
INVARIANTS
  FftExact
  StreamExact
  SamplesExact
  EachOnce
  OnlyInputRefused
  RowsInPlace
  Reach
