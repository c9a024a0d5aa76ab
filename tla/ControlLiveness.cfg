CONSTANTS
    DeltaProcess = {scheduler, main}
    Scheduler = scheduler
    Main = main
    VM = vm
    Nil = nil
    MaxDepth = 2
SPECIFICATION FairSpec
PROPERTIES
    OperationReturns
    SchedulerRegainsControl
    CompletionNoticed
