CONSTANTS
    Handlers = {r1, r2, r3}
    Latencies <- Samples
    MaxSamples = 2
    SampleSizes <- Sizes
SPECIFICATION MetricsFairSpec
INVARIANTS
    GaugeShowsLastSet
    PercentileRank
PROPERTY GaugeSettles
