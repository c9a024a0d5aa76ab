CONSTANTS
    DeltaProcess = {scheduler, main, worker}
    Scheduler = scheduler
    Main = main
    VM = vm
    Nil = nil
    MaxDepth = 2
SPECIFICATION Spec
INVARIANTS
    TypeOK
    OneTorch
    HolderIsCurrent
    FramesIntact
    NoLostCompletion
    TerminationReported
    TargetAlive
    UncommonKept
PROPERTY TorchSpec
