---------------------- MODULE PLSpectrumRuntimeProofs ----------------------
(***************************************************************************)
(* Theorems about PLSpectrumRuntime, for every value of its constants: any *)
(* number of blocks, retunes and foreign reads, any capacity and averaging *)
(* depth, a concurrent or a sequential radio, publishers that re-enter.    *)
(***************************************************************************)
EXTENDS PLSpectrumRuntime, TLAPS

\* The part of TypeOK that activating a configuration changes.
ProcTypes ==
    /\ active \in Config /\ fia \in Nat /\ procCount \in Nat
    /\ procSeq \in 0 .. SeqMod - 1
    /\ averaging \in [first : Nat \cup {NoIndex}, seen : SUBSET Tuning]
    /\ unreportedFrames \in Nat /\ unreportedEvents \in Nat /\ discarded \in Nat

\* Activating a configuration that was read from the radio keeps the types.
LEMMA ActivateType ==
  ASSUME TypeOK, NEW r \in Radio, Activate(r)
  PROVE  ProcTypes'
BY DEF TypeOK, Activate, OweDiscarded, NewProcessor, ProcTypes, Radio, Config,
     NothingAveraged

\* A complete block has a first and a next sample index.
LEMMA BlockSamples ==
  ASSUME TypeOK, BlockShape, HoldsBlock
  PROVE  1 \in 1 .. FFTSize /\ FFTSize \in 1 .. FFTSize /\ \A k \in 1 .. FFTSize : block[k] \in Sample
<1>1. FFTSize \in Nat \ {0}
  BY RuntimeAssumption
<1>2. block \in Seq(Sample) /\ Len(block) = FFTSize
  BY DEF TypeOK, BlockShape
<1> QED
  BY <1>1, <1>2

\* Both indices are sample numbers.
LEMMA BlockIndices ==
  ASSUME TypeOK, BlockShape, HoldsBlock
  PROVE  FirstIndex \in Nat /\ NextIndex \in Nat
BY BlockSamples DEF FirstIndex, NextIndex, Sample

\* Packet sequence numbers stay in their range.
LEMMA NextSequence ==
  ASSUME NEW seq \in 0 .. SeqMod - 1
  PROVE  (seq + 1) % SeqMod \in 0 .. SeqMod - 1
BY RuntimeAssumption

\* What a complete block adds to the average, and the packets it completes.
LEMMA PacketsType ==
  ASSUME TypeOK, BlockShape, HoldsBlock
  PROVE  /\ Averaged \in [first : Nat \cup {NoIndex}, seen : SUBSET Tuning]
         /\ Packets \in Update
<1>1. \A k \in 1 .. FFTSize : TuningOf(block[k]) \in Tuning
  BY BlockSamples DEF TuningOf, Tuning, Sample
<1>2. Averaged \in [first : Nat \cup {NoIndex}, seen : SUBSET Tuning]
  BY <1>1, BlockIndices DEF TypeOK, Averaged
<1>3. NextIndex - Averaged.first \in Int
  BY <1>2, BlockIndices DEF NoIndex
<1> QED
  BY <1>2, <1>3 DEF TypeOK, Packets, Update

\* Every step of every thread keeps the types.
LEMMA TypeStep ==
  ASSUME IInv, [Next]_vars
  PROVE  TypeOK'
<1> USE RuntimeAssumption DEF IInv, outside, control, input, output, radioVars, rfVars,
       threadVars, readVars, blockVars, procVars, madeVars, consumed, queueVars
<1>1. CASE SetLO
  <2>1. radio \in Radio /\ unbumped \in Nat
    BY DEF TypeOK
  <2>2. (\E lo \in LOs : radio' = [radio EXCEPT !.lo = lo]) /\ unbumped' = unbumped + 1
    BY <1>1 DEF SetLO, Retuned
  <2>3. radio' \in Radio /\ unbumped' \in Nat
    <3>1. unbumped' \in Nat
      BY <2>1, <2>2
    <3>2. radio' \in Radio
      BY <2>1, <2>2 DEF Radio
    <3> QED
      BY <3>1, <3>2
  <2>4. UNCHANGED <<rfVars, publisher, control, input, output, readVars>>
    BY <1>1 DEF SetLO, Retuned
  <2> QED
    BY <2>3, <2>4 DEF TypeOK
<1>2. CASE SetSampleRate
  <2>1. radio \in Radio /\ unbumped \in Nat
    BY DEF TypeOK
  <2>2. (\E rate \in Rates : radio' = [radio EXCEPT !.rate = rate]) /\ unbumped' = unbumped + 1
    BY <1>2 DEF SetSampleRate, Retuned
  <2>3. radio' \in Radio /\ unbumped' \in Nat
    <3>1. unbumped' \in Nat
      BY <2>1, <2>2
    <3>2. radio' \in Radio
      BY <2>1, <2>2 DEF Radio
    <3> QED
      BY <3>1, <3>2
  <2>4. UNCHANGED <<rfVars, publisher, control, input, output, readVars>>
    BY <1>2 DEF SetSampleRate, Retuned
  <2> QED
    BY <2>3, <2>4 DEF TypeOK
<1>3. CASE BumpEpoch
  <2>1. radio \in Radio /\ unbumped \in Nat
    BY DEF TypeOK
  <2>2. radio' = [radio EXCEPT !.epoch = @ + 1] /\ unbumped > 0 /\ unbumped' = unbumped - 1
    BY <1>3 DEF BumpEpoch
  <2>3. radio' \in Radio /\ unbumped' \in Nat
    <3>1. unbumped' \in Nat
      BY <2>1, <2>2
    <3>2. radio' \in Radio
      BY <2>1, <2>2 DEF Radio
    <3> QED
      BY <3>1, <3>2
  <2>4. UNCHANGED <<rfVars, publisher, control, input, output, readVars>>
    BY <1>3 DEF BumpEpoch
  <2> QED
    BY <2>3, <2>4 DEF TypeOK
<1>4. CASE ForeignRead
  BY <1>4 DEF TypeOK, ForeignRead
<1>5. CASE SetPublisher
  BY <1>5 DEF TypeOK, SetPublisher
<1>6. CASE Start
  BY <1>6 DEF TypeOK, Start
<1>7. CASE Stop
  BY <1>7 DEF TypeOK, Stop
<1>8. CASE CallStep
  BY <1>8 DEF TypeOK, CallStep
<1>9. CASE Drain
  BY <1>9 DEF TypeOK, Drain, TakePending
<1>10. CASE WorkerLoop
  BY <1>10 DEF TypeOK, WorkerLoop
<1>11. ASSUME NEW who \in {"worker", "caller"}, BeginStep(who) PROVE TypeOK'
  BY <1>11 DEF TypeOK, BeginStep, Labels
<1>12. ASSUME NEW who \in {"worker", "caller"}, RefuseStep(who) PROVE TypeOK'
  BY <1>12 DEF TypeOK, RefuseStep
<1>13. CASE RetryOldestPending
  BY <1>13 DEF TypeOK, RetryOldestPending, Within, BeginRead, Labels
<1>14. CASE RetryAccepted
  <2>1. pending' \in Seq(Update) /\ published' \in Nat
    <3>1. CASE OfferedIsHead
      <4>1. pending \in Seq(Update) /\ pending # << >> /\ published \in Nat
        BY <3>1 DEF TypeOK, OfferedIsHead
      <4>2. pending' = Tail(pending) /\ published' = published + 1
        BY <1>14, <3>1 DEF RetryAccepted
      <4> QED
        BY <4>1, <4>2
    <3>2. CASE ~OfferedIsHead
      BY <1>14, <3>2 DEF TypeOK, RetryAccepted
    <3> QED
      BY <3>1, <3>2
  <2>2. backpressured' \in BOOLEAN
    BY <1>14 DEF TypeOK, RetryAccepted, LeaveBackpressure
  <2> QED
    BY <1>14, <2>1, <2>2 DEF TypeOK, RetryAccepted, Within, BeginRead, Labels
<1>15. CASE ReadEpoch
  <2>1. snap' \in Radio
    BY <1>15 DEF TypeOK, ReadEpoch, ReadStep, Radio
  <2> QED
    BY <1>15, <2>1 DEF TypeOK, ReadEpoch, ReadStep, Within, Labels
<1>16. CASE ReadRate
  <2>1. snap' \in Radio
    BY <1>16 DEF TypeOK, ReadRate, ReadStep, Radio
  <2> QED
    BY <1>16, <2>1 DEF TypeOK, ReadRate, ReadStep, Within, Labels
<1>17. CASE ReadLO
  <2>1. snap' \in Radio
    BY <1>17 DEF TypeOK, ReadLO, ReadStep, Radio
  <2> QED
    BY <1>17, <2>1 DEF TypeOK, ReadLO, ReadStep, Within, Labels
<1>18. CASE ReadDone
  BY <1>18 DEF TypeOK, ReadDone, Within, Labels
<1>19. CASE ReadUnstable
  <2>1. CASE tries' = ReadAttempts
    BY <1>19, <2>1 DEF TypeOK, ReadUnstable, Fail, Labels
  <2>2. CASE tries' # ReadAttempts
    BY <1>19, <2>2 DEF TypeOK, ReadUnstable, Within, Labels
  <2> QED
    BY <2>1, <2>2
<1>20. CASE RememberOrActivate
  <2>1. CASE observed # active
    <3>1. Activate(observed)
      BY <1>20, <2>1 DEF RememberOrActivate
    <3> QED
      BY <1>20, <3>1, ActivateType DEF TypeOK, ProcTypes, RememberOrActivate, Within, Labels
  <2>2. CASE observed = active
    BY <1>20, <2>2 DEF TypeOK, RememberOrActivate, Within, Labels
  <2> QED
    BY <2>1, <2>2
<1>21. CASE EnterBackpressure
  BY <1>21 DEF TypeOK, EnterBackpressure, EndStep, Labels
<1>22. CASE StartBlock
  BY <1>22 DEF TypeOK, StartBlock, Within, Labels
<1>23. CASE StepBound
  BY <1>23 DEF TypeOK, StepBound, EndStep, Labels
<1>24. CASE SampleEpoch
  BY <1>24 DEF TypeOK, SampleEpoch, Within, Labels, Radio
<1>25. CASE SampleLO
  BY <1>25 DEF TypeOK, SampleLO, Within, Labels, Radio, Sample
<1>26. CASE ValidBlock
  BY <1>26 DEF TypeOK, ValidBlock, Within, Labels
<1>27. CASE MovedBlock
  BY <1>27 DEF TypeOK, MovedBlock, Within, BeginRead, Labels
<1>28. CASE BrokenBlock
  <2>1. HoldsBlock
    BY <1>28 DEF BrokenBlock, HoldsBlock
  <2>2. expected' \in Nat /\ iqFrames' \in Nat /\ block' \in Seq(Sample)
    BY <1>28, <2>1, BlockIndices DEF TypeOK, BrokenBlock, ContinuityError, ConsumeIQ
  <2> QED
    BY <1>28, <2>2 DEF TypeOK, BrokenBlock, ContinuityError, Fail, Labels
<1>29. CASE AdoptMovedBlock
  <2>1. HoldsBlock
    BY <1>29 DEF AdoptMovedBlock, HoldsBlock
  <2>2. ProcTypes'
    BY <1>29, ActivateType DEF TypeOK, AdoptMovedBlock, ProcTypes
  <2>3. CASE Within("process") /\ UNCHANGED <<block, consumed>>
    BY <1>29, <2>2, <2>3 DEF TypeOK, ProcTypes, AdoptMovedBlock, Within, Labels
  <2>4. CASE ContinuityError
    <3>1. expected' \in Nat /\ iqFrames' \in Nat /\ block' \in Seq(Sample)
      BY <2>1, <2>4, BlockIndices DEF TypeOK, ContinuityError, ConsumeIQ
    <3> QED
      BY <1>29, <2>2, <2>4, <3>1 DEF TypeOK, ProcTypes, AdoptMovedBlock,
           ContinuityError, Fail, Labels
  <2> QED
    BY <1>29, <2>3, <2>4 DEF AdoptMovedBlock
<1>30. CASE ProcessFrame
  <2>1. HoldsBlock
    BY <1>30 DEF ProcessFrame, HoldsBlock
  <2>2. expected' \in Nat /\ iqFrames' \in Nat /\ block' \in Seq(Sample)
    BY <1>30, <2>1, BlockIndices DEF TypeOK, ProcessFrame, ConsumeIQ
  <2>3. CASE procCount + 1 < FramesPerUpdate[active.rate]
    BY <1>30, <2>1, <2>2, <2>3, PacketsType DEF TypeOK, ProcessFrame, LeaveBackpressure,
         EndStep, Labels
  <2>4. CASE ~(procCount + 1 < FramesPerUpdate[active.rate])
    <3>1. procSeq' \in 0 .. SeqMod - 1
      BY <1>30, <2>4 DEF TypeOK, ProcessFrame
    <3> QED
      BY <1>30, <2>1, <2>2, <2>4, <3>1, PacketsType DEF TypeOK, ProcessFrame,
           NothingAveraged, Within, Labels
  <2> QED
    BY <2>3, <2>4
<1>31. CASE GenerateUpdate
  <2>1. offered' \in Update
    BY <1>31 DEF TypeOK, GenerateUpdate, Update
  <2>2. offered.seq \in 0 .. SeqMod - 1 /\ offered.frames \in Nat
    BY DEF TypeOK, Update
  <2>3. nextSeq' \in 0 .. SeqMod - 1
    BY <1>31, <2>2, NextSequence DEF GenerateUpdate
  <2>4. framesOut' \in Nat /\ lossOut' \in Nat /\ generated' \in Nat
    <3>1. framesOut \in Nat /\ lossOut \in Nat /\ generated \in Nat /\ unreportedFrames \in Nat
      BY DEF TypeOK
    <3>2. /\ framesOut' = framesOut + offered.frames
          /\ lossOut' = lossOut + unreportedFrames
          /\ generated' = generated + 1
      BY <1>31 DEF GenerateUpdate
    <3> QED
      BY <2>2, <3>1, <3>2
  <2>5. /\ unreportedFrames' = 0 /\ unreportedEvents' = 0 /\ fia' = 0
        /\ pc = "generate" /\ Within("deliver")
        /\ UNCHANGED <<outside, readVars, blockVars, active, procCount, procSeq, averaging,
                       discarded, consumed, queueVars>>
    BY <1>31 DEF GenerateUpdate
  <2> HIDE <1>31
  <2> QED
    BY <2>1, <2>3, <2>4, <2>5 DEF TypeOK, Within, Labels
<1>32. CASE LossOverflows
  BY <1>32 DEF TypeOK, LossOverflows, Fail, Labels
<1>33. CASE Deliver
  BY <1>33 DEF TypeOK, Deliver, Within, Labels
<1>34. CASE Published
  BY <1>34 DEF TypeOK, Published, LeaveBackpressure, EndStep, Labels
<1>35. CASE Enqueue
  <2>1. CASE QueueFull
    BY <1>35, <2>1 DEF TypeOK, Enqueue, Fail, Labels
  <2>2. CASE ~QueueFull
    <3>1. pending' \in Seq(Update)
      <4>1. pending \in Seq(Update) /\ offered \in Update
        BY DEF TypeOK
      <4>2. pending' = Append(pending, offered)
        BY <1>35, <2>2 DEF Enqueue
      <4> QED
        BY <4>1, <4>2
    <3> QED
      BY <1>35, <2>2, <3>1 DEF TypeOK, Enqueue, EndStep, Labels
  <2> QED
    BY <2>1, <2>2
<1>36. CASE SinkAccepts
  BY <1>36 DEF TypeOK, SinkAccepts, Within, Labels
<1>37. CASE SinkRejects
  BY <1>37 DEF TypeOK, SinkRejects, Within, BeginRead, Labels
<1>38. CASE UNCHANGED vars
  BY <1>38 DEF TypeOK, vars
<1>39. CASE SetOther
  BY <1>39 DEF TypeOK, SetOther, Retuned
<1> QED
  BY <1>1, <1>2, <1>3, <1>4, <1>5, <1>6, <1>7, <1>8, <1>9, <1>10, <1>11, <1>12, <1>13,
       <1>14, <1>15, <1>16, <1>17, <1>18, <1>19, <1>20, <1>21, <1>22, <1>23, <1>24,
       <1>25, <1>26, <1>27, <1>28, <1>29, <1>30, <1>31, <1>32, <1>33, <1>34, <1>35,
       <1>36, <1>37, <1>38, <1>39 DEF Next, Environment, Step, Sink

\* Every step keeps the block, the reserved slot and the processor in step.
LEMMA ControlStep ==
  ASSUME IInv, [Next]_vars
  PROVE  (BlockShape /\ SlotReserved /\ ProcessorInStep)'
<1> USE RuntimeAssumption DEF IInv, outside, control, input, output, radioVars, rfVars,
       threadVars, readVars, blockVars, procVars, madeVars, consumed, queueVars
<1>1. CASE SetLO
  BY <1>1 DEF TypeOK, BlockShape, SlotReserved, ProcessorInStep, HoldsBlock,
       Revalidating, ReadLabels, Sampling, WillEmit, QueueFull, SetLO, Retuned
<1>2. CASE SetSampleRate
  BY <1>2 DEF TypeOK, BlockShape, SlotReserved, ProcessorInStep, HoldsBlock,
       Revalidating, ReadLabels, Sampling, WillEmit, QueueFull, SetSampleRate, Retuned
<1>3. CASE BumpEpoch
  BY <1>3 DEF TypeOK, BlockShape, SlotReserved, ProcessorInStep, HoldsBlock,
       Revalidating, ReadLabels, Sampling, WillEmit, QueueFull, BumpEpoch
<1>4. CASE ForeignRead
  BY <1>4 DEF TypeOK, BlockShape, SlotReserved, ProcessorInStep, HoldsBlock,
       Revalidating, ReadLabels, Sampling, WillEmit, QueueFull, ForeignRead
<1>5. CASE SetPublisher
  BY <1>5 DEF TypeOK, BlockShape, SlotReserved, ProcessorInStep, HoldsBlock,
       Revalidating, ReadLabels, Sampling, WillEmit, QueueFull, SetPublisher
<1>6. CASE Start
  BY <1>6 DEF TypeOK, BlockShape, SlotReserved, ProcessorInStep, HoldsBlock,
       Revalidating, ReadLabels, Sampling, WillEmit, QueueFull, Start
<1>7. CASE Stop
  BY <1>7 DEF TypeOK, BlockShape, SlotReserved, ProcessorInStep, HoldsBlock,
       Revalidating, ReadLabels, Sampling, WillEmit, QueueFull, Stop
<1>8. CASE CallStep
  BY <1>8 DEF TypeOK, BlockShape, SlotReserved, ProcessorInStep, HoldsBlock,
       Revalidating, ReadLabels, Sampling, WillEmit, QueueFull, CallStep
<1>9. CASE Drain
  BY <1>9 DEF TypeOK, BlockShape, SlotReserved, ProcessorInStep, HoldsBlock,
       Revalidating, ReadLabels, Sampling, WillEmit, QueueFull, Drain, TakePending,
       DrainBoundary
<1>10. CASE WorkerLoop
  BY <1>10 DEF TypeOK, BlockShape, SlotReserved, ProcessorInStep, HoldsBlock,
       Revalidating, ReadLabels, Sampling, WillEmit, QueueFull, WorkerLoop
<1>11. ASSUME NEW who \in {"worker", "caller"}, BeginStep(who) PROVE (BlockShape /\ SlotReserved /\ ProcessorInStep)'
  BY <1>11 DEF TypeOK, BlockShape, SlotReserved, ProcessorInStep, HoldsBlock,
       Revalidating, ReadLabels, Sampling, WillEmit, QueueFull, BeginStep
<1>12. ASSUME NEW who \in {"worker", "caller"}, RefuseStep(who) PROVE (BlockShape /\ SlotReserved /\ ProcessorInStep)'
  BY <1>12 DEF TypeOK, BlockShape, SlotReserved, ProcessorInStep, HoldsBlock,
       Revalidating, ReadLabels, Sampling, WillEmit, QueueFull, RefuseStep
<1>13. CASE RetryOldestPending
  BY <1>13 DEF TypeOK, BlockShape, SlotReserved, ProcessorInStep, HoldsBlock,
       Revalidating, ReadLabels, Sampling, WillEmit, QueueFull, RetryOldestPending,
       Within, BeginRead
<1>14. CASE RetryAccepted
  BY <1>14 DEF TypeOK, BlockShape, SlotReserved, ProcessorInStep, HoldsBlock,
       Revalidating, ReadLabels, Sampling, WillEmit, QueueFull, RetryAccepted,
       OfferedIsHead, LeaveBackpressure, Within, BeginRead
<1>15. CASE ReadEpoch
  BY <1>15 DEF TypeOK, BlockShape, SlotReserved, ProcessorInStep, HoldsBlock,
       Revalidating, ReadLabels, Sampling, WillEmit, QueueFull, ReadEpoch, ReadStep,
       Within
<1>16. CASE ReadRate
  BY <1>16 DEF TypeOK, BlockShape, SlotReserved, ProcessorInStep, HoldsBlock,
       Revalidating, ReadLabels, Sampling, WillEmit, QueueFull, ReadRate, ReadStep,
       Within
<1>17. CASE ReadLO
  BY <1>17 DEF TypeOK, BlockShape, SlotReserved, ProcessorInStep, HoldsBlock,
       Revalidating, ReadLabels, Sampling, WillEmit, QueueFull, ReadLO, ReadStep, Within
<1>18. CASE ReadDone
  BY <1>18 DEF TypeOK, BlockShape, SlotReserved, ProcessorInStep, HoldsBlock,
       Revalidating, ReadLabels, Sampling, WillEmit, QueueFull, ReadDone, Within
<1>19. CASE ReadUnstable
  BY <1>19 DEF TypeOK, BlockShape, SlotReserved, ProcessorInStep, HoldsBlock,
       Revalidating, ReadLabels, Sampling, WillEmit, QueueFull, ReadUnstable, Fail,
       Within
<1>20. CASE RememberOrActivate
  BY <1>20 DEF TypeOK, BlockShape, SlotReserved, ProcessorInStep, HoldsBlock,
       Revalidating, ReadLabels, Sampling, WillEmit, QueueFull, RememberOrActivate,
       Activate, OweDiscarded, NewProcessor, Within
<1>21. CASE EnterBackpressure
  BY <1>21 DEF TypeOK, BlockShape, SlotReserved, ProcessorInStep, HoldsBlock,
       Revalidating, ReadLabels, Sampling, WillEmit, QueueFull, EnterBackpressure,
       EndStep
<1>22. CASE StartBlock
  BY <1>22 DEF TypeOK, BlockShape, SlotReserved, ProcessorInStep, HoldsBlock,
       Revalidating, ReadLabels, Sampling, WillEmit, QueueFull, StartBlock, Within
<1>23. CASE StepBound
  BY <1>23 DEF TypeOK, BlockShape, SlotReserved, ProcessorInStep, HoldsBlock,
       Revalidating, ReadLabels, Sampling, WillEmit, QueueFull, StepBound, EndStep
<1>24. CASE SampleEpoch
  BY <1>24 DEF TypeOK, BlockShape, SlotReserved, ProcessorInStep, HoldsBlock,
       Revalidating, ReadLabels, Sampling, WillEmit, QueueFull, SampleEpoch, Within
<1>25. CASE SampleLO
  BY <1>25 DEF TypeOK, BlockShape, SlotReserved, ProcessorInStep, HoldsBlock,
       Revalidating, ReadLabels, Sampling, WillEmit, QueueFull, SampleLO, Within
<1>26. CASE ValidBlock
  BY <1>26 DEF TypeOK, BlockShape, SlotReserved, ProcessorInStep, HoldsBlock,
       Revalidating, ReadLabels, Sampling, WillEmit, QueueFull, ValidBlock, Within
<1>27. CASE MovedBlock
  BY <1>27 DEF TypeOK, BlockShape, SlotReserved, ProcessorInStep, HoldsBlock,
       Revalidating, ReadLabels, Sampling, WillEmit, QueueFull, MovedBlock, Within,
       BeginRead
<1>28. CASE BrokenBlock
  BY <1>28 DEF TypeOK, BlockShape, SlotReserved, ProcessorInStep, HoldsBlock,
       Revalidating, ReadLabels, Sampling, WillEmit, QueueFull, BrokenBlock,
       ContinuityError, ConsumeIQ, Fail
<1>29. CASE AdoptMovedBlock
  BY <1>29 DEF TypeOK, BlockShape, SlotReserved, ProcessorInStep, HoldsBlock,
       Revalidating, ReadLabels, Sampling, WillEmit, QueueFull, AdoptMovedBlock,
       Activate, OweDiscarded, NewProcessor, ContinuityError, ConsumeIQ, Fail, Within
<1>30. CASE ProcessFrame
  <2>1. /\ pc = "process" /\ terminal = "none"
        /\ procCount = fia /\ procSeq = nextSeq /\ fia \in Nat
        /\ pending' = pending /\ active' = active /\ terminal' = terminal
        /\ fia' = fia + 1 /\ nextSeq' = nextSeq
    BY <1>30 DEF TypeOK, ProcessFrame, ProcessorInStep, EndStep, Within
  <2>2. CASE procCount + 1 < FramesPerUpdate[active.rate]
    <3>1. pc' = "idle" /\ procCount' = procCount + 1 /\ procSeq' = procSeq
      BY <1>30, <2>2 DEF ProcessFrame, EndStep
    <3> QED
      BY <2>1, <3>1 DEF BlockShape, SlotReserved, ProcessorInStep, HoldsBlock, Revalidating,
                        ReadLabels, Sampling
  <2>3. CASE ~(procCount + 1 < FramesPerUpdate[active.rate])
    <3>1. /\ pc' = "generate" /\ offered' = Packets
          /\ procCount' = 0 /\ procSeq' = (procSeq + 1) % SeqMod
      BY <1>30, <2>3 DEF ProcessFrame, Within
    <3>2. offered'.frames = procCount + 1 /\ offered'.seq = procSeq
      BY <3>1 DEF Packets
    <3>3. active \in Config
      BY DEF TypeOK
    <3>4. FramesPerUpdate[active.rate] \in Nat
      BY <3>3 DEF Config
    <3>5. WillEmit
      BY <2>1, <2>3, <3>4 DEF WillEmit
    <3>6. ~QueueFull
      BY <2>1, <3>5 DEF SlotReserved, HoldsBlock
    <3>7. ~QueueFull'
      BY <2>1, <3>6 DEF QueueFull
    <3> QED
      BY <2>1, <3>1, <3>2, <3>7 DEF BlockShape, SlotReserved, ProcessorInStep, HoldsBlock,
                                    Revalidating, ReadLabels, Sampling
  <2> QED
    BY <2>2, <2>3
<1>31. CASE GenerateUpdate
  <2>1. /\ pc = "generate" /\ pc' = "deliver" /\ terminal' = terminal /\ pending' = pending
        /\ fia' = 0 /\ procCount' = procCount /\ procSeq' = procSeq
        /\ nextSeq' = (offered.seq + 1) % SeqMod
    BY <1>31 DEF GenerateUpdate, Within
  <2>2. procCount = 0
    BY <2>1 DEF ProcessorInStep
  <2> QED
    BY <2>1, <2>2 DEF BlockShape, SlotReserved, ProcessorInStep, HoldsBlock, Revalidating,
                      ReadLabels, Sampling, QueueFull
<1>32. CASE LossOverflows
  BY <1>32 DEF TypeOK, BlockShape, SlotReserved, ProcessorInStep, HoldsBlock,
       Revalidating, ReadLabels, Sampling, WillEmit, QueueFull, LossOverflows, Fail
<1>33. CASE Deliver
  BY <1>33 DEF TypeOK, BlockShape, SlotReserved, ProcessorInStep, HoldsBlock,
       Revalidating, ReadLabels, Sampling, WillEmit, QueueFull, Deliver, Within
<1>34. CASE Published
  BY <1>34 DEF TypeOK, BlockShape, SlotReserved, ProcessorInStep, HoldsBlock,
       Revalidating, ReadLabels, Sampling, WillEmit, QueueFull, Published,
       LeaveBackpressure, EndStep
<1>35. CASE Enqueue
  BY <1>35 DEF TypeOK, BlockShape, SlotReserved, ProcessorInStep, HoldsBlock,
       Revalidating, ReadLabels, Sampling, WillEmit, QueueFull, Enqueue, Fail, EndStep
<1>36. CASE SinkAccepts
  BY <1>36 DEF TypeOK, BlockShape, SlotReserved, ProcessorInStep, HoldsBlock,
       Revalidating, ReadLabels, Sampling, WillEmit, QueueFull, SinkAccepts, Within
<1>37. CASE SinkRejects
  BY <1>37 DEF TypeOK, BlockShape, SlotReserved, ProcessorInStep, HoldsBlock,
       Revalidating, ReadLabels, Sampling, WillEmit, QueueFull, SinkRejects, Within,
       BeginRead
<1>38. CASE UNCHANGED vars
  BY <1>38 DEF TypeOK, BlockShape, SlotReserved, ProcessorInStep, HoldsBlock,
       Revalidating, ReadLabels, Sampling, WillEmit, QueueFull, vars
<1>39. CASE SetOther
  BY <1>39 DEF TypeOK, BlockShape, SlotReserved, ProcessorInStep, HoldsBlock,
       Revalidating, ReadLabels, Sampling, WillEmit, QueueFull, SetOther, Retuned
<1> QED
  BY <1>1, <1>2, <1>3, <1>4, <1>5, <1>6, <1>7, <1>8, <1>9, <1>10, <1>11, <1>12, <1>13,
       <1>14, <1>15, <1>16, <1>17, <1>18, <1>19, <1>20, <1>21, <1>22, <1>23, <1>24,
       <1>25, <1>26, <1>27, <1>28, <1>29, <1>30, <1>31, <1>32, <1>33, <1>34, <1>35,
       <1>36, <1>37, <1>38, <1>39 DEF Next, Environment, Step, Sink

\* Every step keeps the ledgers, the room and the stall flag.
LEMMA LedgerStep ==
  ASSUME IInv, [Next]_vars
  PROVE  (UpdateLedger /\ LossLedger /\ RoomForUpdate /\ StallMeansFull)'
<1> USE RuntimeAssumption DEF IInv, outside, control, input, output, radioVars, rfVars,
       threadVars, readVars, blockVars, procVars, madeVars, consumed, queueVars
<1>1. CASE SetLO
  BY <1>1 DEF TypeOK, UpdateLedger, LossLedger, RoomForUpdate, StallMeansFull,
       InDelivery, SlotReserved, QueueFull, SetLO, Retuned
<1>2. CASE SetSampleRate
  BY <1>2 DEF TypeOK, UpdateLedger, LossLedger, RoomForUpdate, StallMeansFull,
       InDelivery, SlotReserved, QueueFull, SetSampleRate, Retuned
<1>3. CASE BumpEpoch
  BY <1>3 DEF TypeOK, UpdateLedger, LossLedger, RoomForUpdate, StallMeansFull,
       InDelivery, SlotReserved, QueueFull, BumpEpoch
<1>4. CASE ForeignRead
  BY <1>4 DEF TypeOK, UpdateLedger, LossLedger, RoomForUpdate, StallMeansFull,
       InDelivery, SlotReserved, QueueFull, ForeignRead
<1>5. CASE SetPublisher
  BY <1>5 DEF TypeOK, UpdateLedger, LossLedger, RoomForUpdate, StallMeansFull,
       InDelivery, SlotReserved, QueueFull, SetPublisher
<1>6. CASE Start
  BY <1>6 DEF TypeOK, UpdateLedger, LossLedger, RoomForUpdate, StallMeansFull,
       InDelivery, SlotReserved, QueueFull, Start
<1>7. CASE Stop
  BY <1>7 DEF TypeOK, UpdateLedger, LossLedger, RoomForUpdate, StallMeansFull,
       InDelivery, SlotReserved, QueueFull, Stop
<1>8. CASE CallStep
  BY <1>8 DEF TypeOK, UpdateLedger, LossLedger, RoomForUpdate, StallMeansFull,
       InDelivery, SlotReserved, QueueFull, CallStep
<1>9. CASE Drain
  <2>1. PICK count \in 1 .. Len(pending) : TakePending(count)
    BY <1>9 DEF Drain
  <2>2. pending \in Seq(Update) /\ Len(pending) \in Nat /\ drained \in Nat
    BY DEF TypeOK
  <2>3. Len(pending') = Len(pending) - count
    BY <2>1, <2>2 DEF TakePending
  <2>4. drained' = drained + count /\ UNCHANGED <<published, input, madeVars, control>>
    BY <1>9, <2>1 DEF Drain, TakePending
  <2>7. backpressured' => backpressured /\ Len(pending') >= Capacity
    BY <2>1 DEF TakePending
  <2>5. UpdateLedger' /\ LossLedger'
    BY <2>2, <2>3, <2>4 DEF UpdateLedger, LossLedger, InDelivery, TypeOK
  <2>6. RoomForUpdate'
    BY <2>2, <2>3, <2>4 DEF RoomForUpdate
  <2>8. StallMeansFull'
    BY <2>2, <2>3, <2>6, <2>7 DEF RoomForUpdate, StallMeansFull
  <2> QED
    BY <2>5, <2>6, <2>8
<1>10. CASE WorkerLoop
  BY <1>10 DEF TypeOK, UpdateLedger, LossLedger, RoomForUpdate, StallMeansFull,
       InDelivery, SlotReserved, QueueFull, WorkerLoop
<1>11. ASSUME NEW who \in {"worker", "caller"}, BeginStep(who) PROVE (UpdateLedger /\ LossLedger /\ RoomForUpdate /\ StallMeansFull)'
  BY <1>11 DEF TypeOK, UpdateLedger, LossLedger, RoomForUpdate, StallMeansFull,
       InDelivery, SlotReserved, QueueFull, BeginStep
<1>12. ASSUME NEW who \in {"worker", "caller"}, RefuseStep(who) PROVE (UpdateLedger /\ LossLedger /\ RoomForUpdate /\ StallMeansFull)'
  BY <1>12 DEF TypeOK, UpdateLedger, LossLedger, RoomForUpdate, StallMeansFull,
       InDelivery, SlotReserved, QueueFull, RefuseStep
<1>13. CASE RetryOldestPending
  BY <1>13 DEF TypeOK, UpdateLedger, LossLedger, RoomForUpdate, StallMeansFull,
       InDelivery, SlotReserved, QueueFull, RetryOldestPending, Within, BeginRead
<1>14. CASE RetryAccepted
  <2>1. /\ pc = "retryAccepted" /\ pc' = "readEpoch"
        /\ UNCHANGED <<input, madeVars, drained, terminal>>
    BY <1>14 DEF RetryAccepted, Within
  <2>6. backpressured' => backpressured /\ Len(pending') >= Capacity
    BY <1>14 DEF RetryAccepted, LeaveBackpressure
  <2>2. /\ Len(pending') <= Len(pending) /\ Len(pending') \in Nat
        /\ published' + Len(pending') = published + Len(pending)
    <3>1. pending \in Seq(Update) /\ published \in Nat
      BY DEF TypeOK
    <3>2. CASE OfferedIsHead
      <4>1. pending # << >> /\ pending' = Tail(pending) /\ published' = published + 1
        BY <1>14, <3>2 DEF RetryAccepted, OfferedIsHead
      <4>2. Len(pending') = Len(pending) - 1
        BY <3>1, <4>1
      <4> QED
        BY <3>1, <4>1, <4>2
    <3>3. CASE ~OfferedIsHead
      BY <1>14, <3>1, <3>3 DEF RetryAccepted
    <3> QED
      BY <3>2, <3>3
  <2>3. /\ Len(pending) \in Nat /\ published \in Nat /\ published' \in Nat /\ drained \in Nat
        /\ generated \in Nat
    BY TypeStep DEF TypeOK
  <2>4. UpdateLedger'
    BY <2>1, <2>2, <2>3 DEF UpdateLedger, InDelivery
  <2>5. RoomForUpdate'
    BY <2>1, <2>2, <2>3 DEF RoomForUpdate
  <2>7. StallMeansFull'
    BY <2>2, <2>5, <2>6 DEF RoomForUpdate, StallMeansFull
  <2> QED
    BY <2>1, <2>4, <2>5, <2>7 DEF LossLedger
<1>15. CASE ReadEpoch
  BY <1>15 DEF TypeOK, UpdateLedger, LossLedger, RoomForUpdate, StallMeansFull,
       InDelivery, SlotReserved, QueueFull, ReadEpoch, ReadStep, Within
<1>16. CASE ReadRate
  BY <1>16 DEF TypeOK, UpdateLedger, LossLedger, RoomForUpdate, StallMeansFull,
       InDelivery, SlotReserved, QueueFull, ReadRate, ReadStep, Within
<1>17. CASE ReadLO
  BY <1>17 DEF TypeOK, UpdateLedger, LossLedger, RoomForUpdate, StallMeansFull,
       InDelivery, SlotReserved, QueueFull, ReadLO, ReadStep, Within
<1>18. CASE ReadDone
  BY <1>18 DEF TypeOK, UpdateLedger, LossLedger, RoomForUpdate, StallMeansFull,
       InDelivery, SlotReserved, QueueFull, ReadDone, Within
<1>19. CASE ReadUnstable
  BY <1>19 DEF TypeOK, UpdateLedger, LossLedger, RoomForUpdate, StallMeansFull,
       InDelivery, SlotReserved, QueueFull, ReadUnstable, Fail, Within
<1>20. CASE RememberOrActivate
  BY <1>20 DEF TypeOK, UpdateLedger, LossLedger, RoomForUpdate, StallMeansFull,
       InDelivery, SlotReserved, QueueFull, RememberOrActivate, Activate, OweDiscarded,
       NewProcessor, Within
<1>21. CASE EnterBackpressure
  BY <1>21 DEF TypeOK, UpdateLedger, LossLedger, RoomForUpdate, StallMeansFull,
       InDelivery, SlotReserved, QueueFull, EnterBackpressure, EndStep
<1>22. CASE StartBlock
  BY <1>22 DEF TypeOK, UpdateLedger, LossLedger, RoomForUpdate, StallMeansFull,
       InDelivery, SlotReserved, QueueFull, StartBlock, Within
<1>23. CASE StepBound
  BY <1>23 DEF TypeOK, UpdateLedger, LossLedger, RoomForUpdate, StallMeansFull,
       InDelivery, SlotReserved, QueueFull, StepBound, EndStep
<1>24. CASE SampleEpoch
  BY <1>24 DEF TypeOK, UpdateLedger, LossLedger, RoomForUpdate, StallMeansFull,
       InDelivery, SlotReserved, QueueFull, SampleEpoch, Within
<1>25. CASE SampleLO
  BY <1>25 DEF TypeOK, UpdateLedger, LossLedger, RoomForUpdate, StallMeansFull,
       InDelivery, SlotReserved, QueueFull, SampleLO, Within
<1>26. CASE ValidBlock
  BY <1>26 DEF TypeOK, UpdateLedger, LossLedger, RoomForUpdate, StallMeansFull,
       InDelivery, SlotReserved, QueueFull, ValidBlock, Within
<1>27. CASE MovedBlock
  BY <1>27 DEF TypeOK, UpdateLedger, LossLedger, RoomForUpdate, StallMeansFull,
       InDelivery, SlotReserved, QueueFull, MovedBlock, Within, BeginRead
<1>28. CASE BrokenBlock
  BY <1>28 DEF TypeOK, UpdateLedger, LossLedger, RoomForUpdate, StallMeansFull,
       InDelivery, SlotReserved, QueueFull, BrokenBlock, ContinuityError, ConsumeIQ,
       Fail
<1>29. CASE AdoptMovedBlock
  <2>1. /\ pc = "match" /\ pc' \in {"process", "idle"} /\ terminal' \in {terminal, "continuity"}
        /\ UNCHANGED <<output, fftFrames>>
    BY <1>29 DEF AdoptMovedBlock, ContinuityError, Fail, Within
  <2>2. /\ discarded \in Nat /\ fia \in Nat /\ unreportedFrames \in Nat
        /\ framesOut \in Nat /\ lossOut \in Nat /\ fftFrames \in Nat
    BY DEF TypeOK
  <2>3. LossLedger'
    <3>1. CASE Activate(snap)
      <4>1. /\ fia' = 0
            /\ discarded' = discarded + fia
            /\ unreportedFrames' = unreportedFrames + fia
        BY <3>1 DEF Activate, OweDiscarded, NewProcessor
      <4> QED
        BY <2>1, <2>2, <4>1 DEF LossLedger
    <3>2. CASE UNCHANGED procVars
      BY <2>1, <3>2 DEF LossLedger
    <3> QED
      BY <1>29, <3>1, <3>2 DEF AdoptMovedBlock
  <2> QED
    BY <2>1, <2>3 DEF UpdateLedger, RoomForUpdate, StallMeansFull, InDelivery
<1>30. CASE ProcessFrame
  <2>1. /\ pc = "process" /\ pc' \in {"idle", "generate"}
        /\ fia' = fia + 1 /\ fftFrames' = fftFrames + 1
        /\ UNCHANGED <<discarded, unreportedFrames, madeVars, pending, published, drained,
                       terminal>>
    BY <1>30 DEF ProcessFrame, EndStep, Within
  <2>5. backpressured' => backpressured
    BY <1>30 DEF ProcessFrame, LeaveBackpressure
  <2>2. /\ discarded \in Nat /\ fia \in Nat /\ framesOut \in Nat /\ fftFrames \in Nat
    BY DEF TypeOK
  <2>3. LossLedger' /\ UpdateLedger'
    <3>1. LossLedger'
      BY <2>1, <2>2 DEF LossLedger
    <3>2. UpdateLedger'
      BY <2>1 DEF UpdateLedger, InDelivery
    <3> QED
      BY <3>1, <3>2
  <2>4. RoomForUpdate' /\ StallMeansFull'
    BY <2>1, <2>5 DEF RoomForUpdate, StallMeansFull
  <2> QED
    BY <2>3, <2>4
<1>31. CASE GenerateUpdate
  <2>1. /\ pc = "generate" /\ pc' = "deliver" /\ fia' = 0 /\ unreportedFrames' = 0
        /\ generated' = generated + 1
        /\ framesOut' = framesOut + offered.frames
        /\ lossOut' = lossOut + unreportedFrames
        /\ UNCHANGED <<discarded, consumed, queueVars, terminal>>
    BY <1>31 DEF GenerateUpdate, Within
  <2>2. offered.frames = fia
    BY <2>1 DEF ProcessorInStep
  <2>3. /\ discarded \in Nat /\ fia \in Nat /\ framesOut \in Nat /\ fftFrames \in Nat
        /\ lossOut \in Nat /\ unreportedFrames \in Nat /\ generated \in Nat
        /\ published \in Nat /\ drained \in Nat /\ pending \in Seq(Update)
    BY DEF TypeOK
  <2>4. LossLedger'
    BY <2>1, <2>2, <2>3 DEF LossLedger
  <2>5. UpdateLedger'
    BY <2>1, <2>3 DEF UpdateLedger, InDelivery
  <2> QED
    BY <2>1, <2>4, <2>5 DEF RoomForUpdate, StallMeansFull
<1>32. CASE LossOverflows
  BY <1>32 DEF TypeOK, UpdateLedger, LossLedger, RoomForUpdate, StallMeansFull,
       InDelivery, SlotReserved, QueueFull, LossOverflows, Fail
<1>33. CASE Deliver
  BY <1>33 DEF TypeOK, UpdateLedger, LossLedger, RoomForUpdate, StallMeansFull,
       InDelivery, SlotReserved, QueueFull, Deliver, Within
<1>34. CASE Published
  BY <1>34 DEF TypeOK, UpdateLedger, LossLedger, RoomForUpdate, StallMeansFull,
       InDelivery, SlotReserved, QueueFull, Published, LeaveBackpressure, EndStep
<1>35. CASE Enqueue
  <2>1. pc = "enqueue" /\ ~QueueFull
    BY <1>35 DEF Enqueue, SlotReserved
  <2>2. /\ pending' = Append(pending, offered) /\ pc' = "idle" /\ terminal' = terminal
        /\ UNCHANGED <<input, madeVars, backpressured, published, drained>>
    BY <1>35, <2>1 DEF Enqueue, EndStep
  <2>3. /\ pending \in Seq(Update) /\ offered \in Update /\ generated \in Nat
        /\ published \in Nat /\ drained \in Nat
    BY DEF TypeOK
  <2>4. Len(pending') = Len(pending) + 1
    BY <2>2, <2>3
  <2>5. UpdateLedger' /\ LossLedger'
    BY <2>1, <2>2, <2>3, <2>4 DEF UpdateLedger, LossLedger, InDelivery
  <2>6. RoomForUpdate' /\ StallMeansFull'
    BY <2>1, <2>2, <2>3, <2>4 DEF RoomForUpdate, StallMeansFull, QueueFull
  <2> QED
    BY <2>5, <2>6
<1>36. CASE SinkAccepts
  BY <1>36 DEF TypeOK, UpdateLedger, LossLedger, RoomForUpdate, StallMeansFull,
       InDelivery, SlotReserved, QueueFull, SinkAccepts, Within
<1>37. CASE SinkRejects
  BY <1>37 DEF TypeOK, UpdateLedger, LossLedger, RoomForUpdate, StallMeansFull,
       InDelivery, SlotReserved, QueueFull, SinkRejects, Within, BeginRead
<1>38. CASE UNCHANGED vars
  BY <1>38 DEF TypeOK, UpdateLedger, LossLedger, RoomForUpdate, StallMeansFull,
       InDelivery, SlotReserved, QueueFull, vars
<1>39. CASE SetOther
  BY <1>39 DEF TypeOK, UpdateLedger, LossLedger, RoomForUpdate, StallMeansFull,
       InDelivery, SlotReserved, QueueFull, SetOther, Retuned
<1> QED
  BY <1>1, <1>2, <1>3, <1>4, <1>5, <1>6, <1>7, <1>8, <1>9, <1>10, <1>11, <1>12, <1>13,
       <1>14, <1>15, <1>16, <1>17, <1>18, <1>19, <1>20, <1>21, <1>22, <1>23, <1>24,
       <1>25, <1>26, <1>27, <1>28, <1>29, <1>30, <1>31, <1>32, <1>33, <1>34, <1>35,
       <1>36, <1>37, <1>38, <1>39 DEF Next, Environment, Step, Sink

-----------------------------------------------------------------------------
\* The invariant holds before the first activation.
LEMMA InitInv == Init => IInv
<1> USE RuntimeAssumption, NoSinkAssumption
<1> SUFFICES ASSUME Init PROVE IInv
  OBVIOUS
<1>1. TypeOK
  <2>1. radio \in Radio /\ NoUpdate(radio) \in Update
    BY DEF Init, Radio, Config, Update, NoUpdate
  <2>2. active \in Config /\ averaging \in [first : Nat \cup {NoIndex}, seen : SUBSET Tuning]
    BY DEF Init, Config, NothingAveraged
  <2>3. pending \in Seq(Update) /\ delivered \in Seq(Update) /\ block \in Seq(Sample)
    BY DEF Init
  <2>4. /\ unbumped \in Nat /\ rfIndex \in Nat /\ foreign \in Nat
        /\ tries \in Nat /\ sampleEpoch \in Nat /\ fia \in Nat /\ procCount \in Nat
        /\ unreportedFrames \in Nat /\ unreportedEvents \in Nat
        /\ iqFrames \in Nat /\ fftFrames \in Nat /\ generated \in Nat
        /\ published \in Nat /\ drained \in Nat /\ discarded \in Nat
        /\ framesOut \in Nat /\ lossOut \in Nat
    BY DEF Init
  <2>5. /\ pc \in Labels /\ stepper = "nobody" /\ pc = "idle"
        /\ worker = "dead" /\ caller = "away" /\ stopEvent = FALSE /\ terminal = "none"
        /\ publisher \in Sinks \cup {NoSink} /\ reading = "observe"
        /\ snap = radio /\ observed = radio /\ backpressured = FALSE
        /\ offered = NoUpdate(radio) /\ expected = NoIndex
    BY DEF Init, Labels
  <2>6. procSeq \in 0 .. SeqMod - 1 /\ nextSeq \in 0 .. SeqMod - 1
    BY DEF Init
  <2> QED
    BY <2>1, <2>2, <2>3, <2>4, <2>5, <2>6 DEF TypeOK
<1>2. BlockShape /\ SlotReserved /\ ProcessorInStep
  BY DEF Init, BlockShape, SlotReserved, ProcessorInStep, Sampling, HoldsBlock,
         Revalidating, ReadLabels
<1>3. UpdateLedger /\ LossLedger /\ RoomForUpdate /\ StallMeansFull
  BY DEF Init, UpdateLedger, LossLedger, RoomForUpdate, StallMeansFull, InDelivery
<1> QED
  BY <1>1, <1>2, <1>3 DEF IInv

\* The invariant is inductive.
LEMMA NextInv == IInv /\ [Next]_vars => IInv'
BY TypeStep, ControlStep, LedgerStep DEF IInv

\* The inductive invariant holds in every reachable state.
THEOREM InvariantHolds == Spec => []IInv
BY InitInv, NextInv, PTL DEF Spec

\* The state has its type in every reachable state.
THEOREM TypeCorrect == Spec => []TypeOK
<1>1. IInv => TypeOK
  BY DEF IInv
<1> QED
  BY <1>1, InvariantHolds, PTL

\* No update is dropped or counted twice, whatever publishers, drains, retunes
\* and restarts do, and the publisher may re-enter drain().
THEOREM NoUpdateLost == Spec => []UpdateLedger
<1>1. IInv => UpdateLedger
  BY DEF IInv
<1> QED
  BY <1>1, InvariantHolds, PTL

\* Every processed FFT frame is in an update, in progress, or discarded, and
\* every discarded one is reported or still to be.
THEOREM NoFrameUnreported == Spec => []LossLedger
<1>1. IInv => LossLedger
  BY DEF IInv
<1> QED
  BY <1>1, InvariantHolds, PTL

\* The result queue never overflows, and the runtime never fails because of it.
THEOREM QueueNeverOverflows == Spec => []RoomForUpdate
<1>1. IInv => RoomForUpdate
  BY DEF IInv
<1> QED
  BY <1>1, InvariantHolds, PTL

\* The input is reported stalled only while the queue is full.
THEOREM StallsOnlyWhenFull == Spec => []StallMeansFull
<1>1. IInv => StallMeansFull
  BY DEF IInv
<1> QED
  BY <1>1, InvariantHolds, PTL

\* Whenever a step asks whether the next frame completes an update, its own
\* counter answers what the SpectrumProcessor will do.
THEOREM ProcessorPredicted == Spec => []ProcessorAgrees
<1>1. IInv => ProcessorAgrees
  BY DEF IInv, ProcessorInStep, ProcessorAgrees
<1> QED
  BY <1>1, InvariantHolds, PTL

\* A failed runtime consumes and generates nothing more, whichever thread
\* calls it: outside a step only a step begins, and none begins after a failure.
THEOREM FailureStays == Spec => FailureIsFinal
<1> DEFINE Final == terminal # "none" =>
                      UNCHANGED <<terminal, iqFrames, fftFrames, generated, block>>
<1>1. IInv /\ [Next]_vars => Final
  <2> SUFFICES ASSUME IInv, [Next]_vars, terminal # "none"
               PROVE  UNCHANGED <<terminal, iqFrames, fftFrames, generated, block>>
    OBVIOUS
  <2> USE DEF outside, control, input, output, radioVars, rfVars, threadVars, readVars,
              blockVars, procVars, madeVars, consumed, queueVars
  <2>1. pc = "idle"
    BY DEF IInv, ProcessorInStep
  <2>2. CASE Environment
    BY <2>2 DEF Environment, SetLO, SetSampleRate, SetOther, Retuned, BumpEpoch, ForeignRead,
                SetPublisher, Start, Stop, CallStep, Drain
  <2>3. CASE WorkerLoop
    BY <2>3 DEF WorkerLoop
  <2>4. CASE Step
    BY <2>1, <2>4 DEF Step, BeginStep, RefuseStep, RetryOldestPending, RetryAccepted,
         ReadEpoch, ReadRate, ReadLO, ReadStep, ReadDone, ReadUnstable,
         RememberOrActivate, EnterBackpressure, StartBlock, StepBound, SampleEpoch,
         SampleLO, ValidBlock, MovedBlock, BrokenBlock, AdoptMovedBlock, ProcessFrame,
         GenerateUpdate, LossOverflows, Deliver, Published, Enqueue
  <2>5. CASE Sink
    BY <2>1, <2>5 DEF Sink, SinkAccepts, SinkRejects
  <2>6. CASE UNCHANGED vars
    BY <2>6 DEF vars
  <2> QED
    BY <2>2, <2>3, <2>4, <2>5, <2>6 DEF Next
<1>2. Spec => [][Final]_vars
  BY <1>1, InvariantHolds, PTL DEF Spec
<1> QED
  BY <1>2 DEF FailureIsFinal

-----------------------------------------------------------------------------
(* The samples.                                                            *)

\* Every step accounts for the samples that were taken.
LEMMA SampleStep ==
  ASSUME IInv, SampleInv, [Next]_vars
  PROVE  SampleInv'
<1> USE RuntimeAssumption DEF IInv, outside, control, input, output, radioVars, rfVars, threadVars,
       readVars, blockVars, procVars, madeVars, consumed, queueVars
<1>1. CASE SetLO
  BY <1>1 DEF TypeOK, BlockShape, ProcessorInStep, SampleInv, BlockEmpty, SamplesAccounted,
       Sampling, HoldsBlock, Revalidating, ReadLabels, SetLO, Retuned
<1>2. CASE SetSampleRate
  BY <1>2 DEF TypeOK, BlockShape, ProcessorInStep, SampleInv, BlockEmpty, SamplesAccounted,
       Sampling, HoldsBlock, Revalidating, ReadLabels, SetSampleRate, Retuned
<1>3. CASE SetOther
  BY <1>3 DEF TypeOK, BlockShape, ProcessorInStep, SampleInv, BlockEmpty, SamplesAccounted,
       Sampling, HoldsBlock, Revalidating, ReadLabels, SetOther, Retuned
<1>4. CASE BumpEpoch
  BY <1>4 DEF TypeOK, BlockShape, ProcessorInStep, SampleInv, BlockEmpty, SamplesAccounted,
       Sampling, HoldsBlock, Revalidating, ReadLabels, BumpEpoch
<1>5. CASE ForeignRead
  BY <1>5 DEF TypeOK, BlockShape, ProcessorInStep, SampleInv, BlockEmpty, SamplesAccounted,
       Sampling, HoldsBlock, Revalidating, ReadLabels, ForeignRead
<1>6. CASE SetPublisher
  BY <1>6 DEF TypeOK, BlockShape, ProcessorInStep, SampleInv, BlockEmpty, SamplesAccounted,
       Sampling, HoldsBlock, Revalidating, ReadLabels, SetPublisher
<1>7. CASE Start
  BY <1>7 DEF TypeOK, BlockShape, ProcessorInStep, SampleInv, BlockEmpty, SamplesAccounted,
       Sampling, HoldsBlock, Revalidating, ReadLabels, Start
<1>8. CASE Stop
  BY <1>8 DEF TypeOK, BlockShape, ProcessorInStep, SampleInv, BlockEmpty, SamplesAccounted,
       Sampling, HoldsBlock, Revalidating, ReadLabels, Stop
<1>9. CASE CallStep
  BY <1>9 DEF TypeOK, BlockShape, ProcessorInStep, SampleInv, BlockEmpty, SamplesAccounted,
       Sampling, HoldsBlock, Revalidating, ReadLabels, CallStep
<1>10. CASE Drain
  BY <1>10 DEF TypeOK, BlockShape, ProcessorInStep, SampleInv, BlockEmpty, SamplesAccounted,
       Sampling, HoldsBlock, Revalidating, ReadLabels, Drain, TakePending, DrainBoundary
<1>11. CASE WorkerLoop
  BY <1>11 DEF TypeOK, BlockShape, ProcessorInStep, SampleInv, BlockEmpty, SamplesAccounted,
       Sampling, HoldsBlock, Revalidating, ReadLabels, WorkerLoop
<1>12. ASSUME NEW who \in {"worker", "caller"}, BeginStep(who) PROVE (SampleInv)'
  BY <1>12 DEF TypeOK, BlockShape, ProcessorInStep, SampleInv, BlockEmpty, SamplesAccounted,
       Sampling, HoldsBlock, Revalidating, ReadLabels, BeginStep
<1>13. ASSUME NEW who \in {"worker", "caller"}, RefuseStep(who) PROVE (SampleInv)'
  BY <1>13 DEF TypeOK, BlockShape, ProcessorInStep, SampleInv, BlockEmpty, SamplesAccounted,
       Sampling, HoldsBlock, Revalidating, ReadLabels, RefuseStep
<1>14. CASE RetryOldestPending
  BY <1>14 DEF TypeOK, BlockShape, ProcessorInStep, SampleInv, BlockEmpty, SamplesAccounted,
       Sampling, HoldsBlock, Revalidating, ReadLabels, RetryOldestPending, Within, BeginRead
<1>15. CASE RetryAccepted
  BY <1>15 DEF TypeOK, BlockShape, ProcessorInStep, SampleInv, BlockEmpty, SamplesAccounted,
       Sampling, HoldsBlock, Revalidating, ReadLabels, RetryAccepted, OfferedIsHead,
       LeaveBackpressure, Within, BeginRead
<1>16. CASE ReadEpoch
  BY <1>16 DEF TypeOK, BlockShape, ProcessorInStep, SampleInv, BlockEmpty, SamplesAccounted,
       Sampling, HoldsBlock, Revalidating, ReadLabels, ReadEpoch, ReadStep, Within
<1>17. CASE ReadRate
  BY <1>17 DEF TypeOK, BlockShape, ProcessorInStep, SampleInv, BlockEmpty, SamplesAccounted,
       Sampling, HoldsBlock, Revalidating, ReadLabels, ReadRate, ReadStep, Within
<1>18. CASE ReadLO
  BY <1>18 DEF TypeOK, BlockShape, ProcessorInStep, SampleInv, BlockEmpty, SamplesAccounted,
       Sampling, HoldsBlock, Revalidating, ReadLabels, ReadLO, ReadStep, Within
<1>19. CASE ReadDone
  BY <1>19 DEF TypeOK, BlockShape, ProcessorInStep, SampleInv, BlockEmpty, SamplesAccounted,
       Sampling, HoldsBlock, Revalidating, ReadLabels, ReadDone, SnapshotIsStable, Within
<1>20. CASE ReadUnstable
  BY <1>20 DEF TypeOK, BlockShape, ProcessorInStep, SampleInv, BlockEmpty, SamplesAccounted,
       Sampling, HoldsBlock, Revalidating, ReadLabels, ReadUnstable, Fail, Within
<1>21. CASE RememberOrActivate
  BY <1>21 DEF TypeOK, BlockShape, ProcessorInStep, SampleInv, BlockEmpty, SamplesAccounted,
       Sampling, HoldsBlock, Revalidating, ReadLabels, RememberOrActivate, Activate,
       OweDiscarded, NewProcessor, Within
<1>22. CASE EnterBackpressure
  BY <1>22 DEF TypeOK, BlockShape, ProcessorInStep, SampleInv, BlockEmpty, SamplesAccounted,
       Sampling, HoldsBlock, Revalidating, ReadLabels, EnterBackpressure, EndStep
<1>23. CASE StartBlock
  BY <1>23 DEF TypeOK, BlockShape, ProcessorInStep, SampleInv, BlockEmpty, SamplesAccounted,
       Sampling, HoldsBlock, Revalidating, ReadLabels, StartBlock, Within
<1>24. CASE StepBound
  BY <1>24 DEF TypeOK, BlockShape, ProcessorInStep, SampleInv, BlockEmpty, SamplesAccounted,
       Sampling, HoldsBlock, Revalidating, ReadLabels, StepBound, EndStep
<1>25. CASE SampleEpoch
  BY <1>25 DEF TypeOK, BlockShape, ProcessorInStep, SampleInv, BlockEmpty, SamplesAccounted,
       Sampling, HoldsBlock, Revalidating, ReadLabels, SampleEpoch, Within
<1>26. CASE SampleLO
  BY <1>26 DEF TypeOK, BlockShape, ProcessorInStep, SampleInv, BlockEmpty, SamplesAccounted,
       Sampling, HoldsBlock, Revalidating, ReadLabels, SampleLO, Within
<1>27. CASE ValidBlock
  BY <1>27 DEF TypeOK, BlockShape, ProcessorInStep, SampleInv, BlockEmpty, SamplesAccounted,
       Sampling, HoldsBlock, Revalidating, ReadLabels, ValidBlock, Within
<1>28. CASE MovedBlock
  BY <1>28 DEF TypeOK, BlockShape, ProcessorInStep, SampleInv, BlockEmpty, SamplesAccounted,
       Sampling, HoldsBlock, Revalidating, ReadLabels, MovedBlock, Within, BeginRead
<1>29. CASE BrokenBlock
  BY <1>29 DEF TypeOK, BlockShape, ProcessorInStep, SampleInv, BlockEmpty, SamplesAccounted,
       Sampling, HoldsBlock, Revalidating, ReadLabels, BrokenBlock, ContinuityError, ConsumeIQ,
       Fail
<1>30. CASE AdoptMovedBlock
  <2>1. /\ pc = "match" /\ Len(block) = FFTSize
        /\ rfIndex' = rfIndex /\ foreign' = foreign
    BY <1>30 DEF AdoptMovedBlock, BlockShape, HoldsBlock
  <2>2. CASE Within("process") /\ UNCHANGED <<block, consumed>>
    BY <2>1, <2>2 DEF TypeOK, SampleInv, BlockEmpty, SamplesAccounted, Sampling, HoldsBlock,
         Within
  <2>3. CASE ContinuityError
    BY <2>1, <2>3 DEF TypeOK, SampleInv, BlockEmpty, SamplesAccounted, ContinuityError,
         ConsumeIQ, Fail
  <2> QED
    BY <1>30, <2>2, <2>3 DEF AdoptMovedBlock
<1>31. CASE ProcessFrame
  <2>1. /\ pc = "process" /\ Len(block) = FFTSize
        /\ rfIndex' = rfIndex /\ foreign' = foreign
        /\ iqFrames' = iqFrames + FFTSize /\ block' = << >>
    BY <1>31 DEF ProcessFrame, ConsumeIQ, BlockShape, HoldsBlock
  <2>2. rfIndex = iqFrames + FFTSize + foreign /\ iqFrames \in Nat /\ foreign \in Nat
    BY <2>1 DEF TypeOK, SampleInv, SamplesAccounted
  <2>3. Len(block') = 0
    BY <2>1
  <2> QED
    BY <2>1, <2>2, <2>3 DEF SampleInv, BlockEmpty, SamplesAccounted
<1>32. CASE GenerateUpdate
  BY <1>32 DEF TypeOK, BlockShape, ProcessorInStep, SampleInv, BlockEmpty, SamplesAccounted,
       Sampling, HoldsBlock, Revalidating, ReadLabels, GenerateUpdate, Within
<1>33. CASE LossOverflows
  BY <1>33 DEF TypeOK, BlockShape, ProcessorInStep, SampleInv, BlockEmpty, SamplesAccounted,
       Sampling, HoldsBlock, Revalidating, ReadLabels, LossOverflows, Fail
<1>34. CASE Deliver
  BY <1>34 DEF TypeOK, BlockShape, ProcessorInStep, SampleInv, BlockEmpty, SamplesAccounted,
       Sampling, HoldsBlock, Revalidating, ReadLabels, Deliver, Within
<1>35. CASE Published
  BY <1>35 DEF TypeOK, BlockShape, ProcessorInStep, SampleInv, BlockEmpty, SamplesAccounted,
       Sampling, HoldsBlock, Revalidating, ReadLabels, Published, LeaveBackpressure, EndStep
<1>36. CASE Enqueue
  BY <1>36 DEF TypeOK, BlockShape, ProcessorInStep, SampleInv, BlockEmpty, SamplesAccounted,
       Sampling, HoldsBlock, Revalidating, ReadLabels, Enqueue, Fail, EndStep
<1>37. CASE SinkAccepts
  BY <1>37 DEF TypeOK, BlockShape, ProcessorInStep, SampleInv, BlockEmpty, SamplesAccounted,
       Sampling, HoldsBlock, Revalidating, ReadLabels, SinkAccepts, Within
<1>38. CASE SinkRejects
  BY <1>38 DEF TypeOK, BlockShape, ProcessorInStep, SampleInv, BlockEmpty, SamplesAccounted,
       Sampling, HoldsBlock, Revalidating, ReadLabels, SinkRejects, Within, BeginRead
<1>39. CASE UNCHANGED vars
  BY <1>39 DEF TypeOK, BlockShape, ProcessorInStep, SampleInv, BlockEmpty, SamplesAccounted,
       Sampling, HoldsBlock, Revalidating, ReadLabels, vars
<1> QED
  BY <1>1, <1>2, <1>3, <1>4, <1>5, <1>6, <1>7, <1>8, <1>9, <1>10, <1>11, <1>12, <1>13, <1>14,
       <1>15, <1>16, <1>17, <1>18, <1>19, <1>20, <1>21, <1>22, <1>23, <1>24, <1>25, <1>26,
       <1>27, <1>28, <1>29, <1>30, <1>31, <1>32, <1>33, <1>34, <1>35, <1>36, <1>37, <1>38, <1>39
       DEF Next, Environment, Step, Sink

-----------------------------------------------------------------------------
(* The order of the updates.                                               *)

\* Division with remainder, in both directions.
LEMMA DivMod ==
  ASSUME NEW a \in Nat, NEW d \in Nat \ {0}
  PROVE  a \div d \in Int /\ a % d \in 0 .. d - 1 /\ a = d * (a \div d) + (a % d)
BY SMT

\* Quotient and remainder give the remainder back.
LEMMA ModOfSum ==
  ASSUME NEW d \in Nat \ {0}, NEW q \in Int, NEW r \in 0 .. d - 1
  PROVE  (d * q + r) % d = r
BY SMTT(30)

\* Packet sequence numbers count modulo their range.
LEMMA NextRemainder ==
  ASSUME NEW a \in Nat, NEW d \in Nat \ {0}
  PROVE  ((a % d) + 1) % d = (a + 1) % d
<1> DEFINE q == a \div d
           r == a % d
<1>1. q \in Int /\ r \in 0 .. d - 1 /\ a = d * q + r
  BY DivMod
<1> HIDE DEF q, r
<1>2. CASE r + 1 < d
  <2>1. (d * q + (r + 1)) % d = r + 1
    BY <1>1, <1>2, ModOfSum
  <2>2. (d * 0 + (r + 1)) % d = r + 1
    BY <1>1, <1>2, ModOfSum
  <2>3. d * q + (r + 1) = a + 1 /\ d * 0 + (r + 1) = r + 1
    BY <1>1
  <2> QED
    BY <2>1, <2>2, <2>3 DEF r
<1>3. CASE r + 1 = d
  <2>1. (d * (q + 1) + 0) % d = 0
    BY <1>1, ModOfSum
  <2>2. (d * 1 + 0) % d = 0
    BY ModOfSum
  <2>3. d * (q + 1) + 0 = a + 1 /\ d * 1 + 0 = r + 1
    BY <1>1, <1>3
  <2> QED
    BY <2>1, <2>2, <2>3 DEF r
<1> QED
  BY <1>1, <1>2, <1>3

\* Numbered updates stay numbered when the next one is put behind them,
LEMMA NumberedAppend ==
  ASSUME NEW updates \in Seq(Update), NEW after \in Nat, NEW u \in Update,
         Numbered(updates, after),
         u.n = after + Len(updates) + 1,
         u.seq = (InitialSequence + after + Len(updates)) % SeqMod
  PROVE  Numbered(Append(updates, u), after)
<1>1. Len(Append(updates, u)) = Len(updates) + 1
  OBVIOUS
<1>2. ASSUME NEW k \in 1 .. Len(updates) + 1
      PROVE  /\ Append(updates, u)[k].n = after + k
             /\ Append(updates, u)[k].seq = (InitialSequence + after + k - 1) % SeqMod
  <2>1. CASE k <= Len(updates)
    BY <2>1 DEF Numbered
  <2>2. CASE k = Len(updates) + 1
    <3>1. Append(updates, u)[k] = u
      BY <2>2
    <3>2. InitialSequence + after + k - 1 = InitialSequence + after + Len(updates)
      BY <2>2, RuntimeAssumption
    <3> QED
      BY <2>2, <3>1, <3>2
  <2> QED
    BY <2>1, <2>2
<1> QED
  BY <1>1, <1>2 DEF Numbered

\* and stay numbered when the first ones go to a consumer.
LEMMA NumberedTake ==
  ASSUME NEW out \in Seq(Update), NEW queue \in Seq(Update), NEW count \in 0 .. Len(queue),
         Numbered(out, 0), Numbered(queue, Len(out))
  PROVE  /\ Numbered(out \o SubSeq(queue, 1, count), 0)
         /\ Numbered(SubSeq(queue, count + 1, Len(queue)), Len(out) + count)
<1> DEFINE all  == out \o SubSeq(queue, 1, count)
           rest == SubSeq(queue, count + 1, Len(queue))
<1>1. /\ Len(all) = Len(out) + count
      /\ \A k \in 1 .. Len(out) : all[k] = out[k]
      /\ \A k \in Len(out) + 1 .. Len(out) + count : all[k] = queue[k - Len(out)]
  OBVIOUS
<1>2. /\ Len(rest) = Len(queue) - count
      /\ \A k \in 1 .. Len(queue) - count : rest[k] = queue[k + count]
  OBVIOUS
<1> HIDE DEF all, rest
<1>3. Numbered(all, 0)
  <2>1. ASSUME NEW k \in 1 .. Len(all)
        PROVE  all[k].n = 0 + k /\ all[k].seq = (InitialSequence + 0 + k - 1) % SeqMod
    <3>1. CASE k <= Len(out)
      <4>1. k \in 1 .. Len(out) /\ all[k] = out[k]
        BY <1>1, <3>1
      <4> QED
        BY <4>1 DEF Numbered
    <3>2. CASE k > Len(out)
      <4>1. k - Len(out) \in 1 .. Len(queue) /\ all[k] = queue[k - Len(out)]
        BY <1>1, <3>2
      <4>2. /\ Len(out) + (k - Len(out)) = 0 + k
            /\ InitialSequence + Len(out) + (k - Len(out)) - 1 = InitialSequence + 0 + k - 1
        BY RuntimeAssumption
      <4> QED
        BY <4>1, <4>2 DEF Numbered
    <3> QED
      BY <1>1, <3>1, <3>2
  <2> QED
    BY <2>1 DEF Numbered
<1>4. Numbered(rest, Len(out) + count)
  <2>1. ASSUME NEW k \in 1 .. Len(rest)
        PROVE  /\ rest[k].n = Len(out) + count + k
               /\ rest[k].seq = (InitialSequence + (Len(out) + count) + k - 1) % SeqMod
    <3>1. k + count \in 1 .. Len(queue) /\ rest[k] = queue[k + count]
      BY <1>2
    <3>2. /\ Len(out) + (k + count) = Len(out) + count + k
          /\ InitialSequence + Len(out) + (k + count) - 1
                = InitialSequence + (Len(out) + count) + k - 1
      BY RuntimeAssumption
    <3> QED
      BY <3>1, <3>2 DEF Numbered
  <2> QED
    BY <2>1 DEF Numbered
<1> QED
  BY <1>3, <1>4 DEF all, rest

\* Every step keeps the numbers and the order of the updates.
LEMMA OrderStep ==
  ASSUME IInv, ~ReentrantSink, UpdatesNumbered, InOrder, [Next]_vars
  PROVE  (UpdatesNumbered /\ InOrder)'
<1> USE RuntimeAssumption DEF IInv, outside, control, input, output, radioVars, rfVars, threadVars,
       readVars, blockVars, procVars, madeVars, consumed, queueVars
<1>1. CASE SetLO
  BY <1>1 DEF ProcessorInStep, UpdatesNumbered, InOrder, Retained, InHand, TypeOK, SetLO,
       Retuned
<1>2. CASE SetSampleRate
  BY <1>2 DEF ProcessorInStep, UpdatesNumbered, InOrder, Retained, InHand, TypeOK,
       SetSampleRate, Retuned
<1>3. CASE SetOther
  BY <1>3 DEF ProcessorInStep, UpdatesNumbered, InOrder, Retained, InHand, TypeOK, SetOther,
       Retuned
<1>4. CASE BumpEpoch
  BY <1>4 DEF ProcessorInStep, UpdatesNumbered, InOrder, Retained, InHand, TypeOK, BumpEpoch
<1>5. CASE ForeignRead
  BY <1>5 DEF ProcessorInStep, UpdatesNumbered, InOrder, Retained, InHand, TypeOK, ForeignRead
<1>6. CASE SetPublisher
  BY <1>6 DEF ProcessorInStep, UpdatesNumbered, InOrder, Retained, InHand, TypeOK, SetPublisher
<1>7. CASE Start
  BY <1>7 DEF ProcessorInStep, UpdatesNumbered, InOrder, Retained, InHand, TypeOK, Start
<1>8. CASE Stop
  BY <1>8 DEF ProcessorInStep, UpdatesNumbered, InOrder, Retained, InHand, TypeOK, Stop
<1>9. CASE CallStep
  BY <1>9 DEF ProcessorInStep, UpdatesNumbered, InOrder, Retained, InHand, TypeOK, CallStep
<1>10. CASE Drain
  <2>1. PICK count \in 1 .. Len(pending) : TakePending(count)
    BY <1>10 DEF Drain
  <2>2. pc = "idle" /\ pc' = pc /\ UNCHANGED <<generated, nextSeq, offered>>
    BY <1>10 DEF Drain, DrainBoundary
  <2>3. Retained = pending /\ Retained' = pending'
    BY <2>2 DEF Retained
  <2>4. pending \in Seq(Update) /\ delivered \in Seq(Update) /\ count \in 0 .. Len(pending)
    BY DEF TypeOK
  <2>5. /\ delivered' = delivered \o SubSeq(pending, 1, count)
        /\ pending' = SubSeq(pending, count + 1, Len(pending))
    BY <2>1 DEF TakePending
  <2>6. Len(delivered') = Len(delivered) + count /\ Len(pending') = Len(pending) - count
    BY <2>4, <2>5
  <2>7. InOrder'
    BY <2>3, <2>4, <2>5, <2>6, NumberedTake DEF InOrder
  <2>8. UpdatesNumbered'
    BY <2>2, <2>3, <2>4, <2>6 DEF UpdatesNumbered, InHand
  <2> QED
    BY <2>7, <2>8
<1>11. CASE WorkerLoop
  BY <1>11 DEF ProcessorInStep, UpdatesNumbered, InOrder, Retained, InHand, TypeOK, WorkerLoop
<1>12. ASSUME NEW who \in {"worker", "caller"}, BeginStep(who) PROVE (UpdatesNumbered /\ InOrder)'
  BY <1>12 DEF ProcessorInStep, UpdatesNumbered, InOrder, Retained, InHand, TypeOK, BeginStep
<1>13. ASSUME NEW who \in {"worker", "caller"}, RefuseStep(who) PROVE (UpdatesNumbered /\ InOrder)'
  BY <1>13 DEF ProcessorInStep, UpdatesNumbered, InOrder, Retained, InHand, TypeOK, RefuseStep
<1>14. CASE RetryOldestPending
  BY <1>14 DEF ProcessorInStep, UpdatesNumbered, InOrder, Retained, InHand, TypeOK,
       RetryOldestPending, Within, BeginRead
<1>15. CASE RetryAccepted
  <2>1. /\ pc = "retryAccepted" /\ pc' = "readEpoch"
        /\ UNCHANGED <<delivered, offered, generated, nextSeq>>
    BY <1>15 DEF RetryAccepted, Within
  <2>2. pending # << >> /\ OfferedIsHead
    BY <2>1 DEF UpdatesNumbered, OfferedIsHead
  <2>3. pending' = Tail(pending)
    BY <1>15, <2>2 DEF RetryAccepted
  <2>4. Retained' = Retained
    BY <2>1, <2>3 DEF Retained
  <2> QED
    BY <2>1, <2>4 DEF UpdatesNumbered, InOrder, InHand
<1>16. CASE ReadEpoch
  BY <1>16 DEF ProcessorInStep, UpdatesNumbered, InOrder, Retained, InHand, TypeOK, ReadEpoch,
       ReadStep, Within
<1>17. CASE ReadRate
  BY <1>17 DEF ProcessorInStep, UpdatesNumbered, InOrder, Retained, InHand, TypeOK, ReadRate,
       ReadStep, Within
<1>18. CASE ReadLO
  BY <1>18 DEF ProcessorInStep, UpdatesNumbered, InOrder, Retained, InHand, TypeOK, ReadLO,
       ReadStep, Within
<1>19. CASE ReadDone
  BY <1>19 DEF ProcessorInStep, UpdatesNumbered, InOrder, Retained, InHand, TypeOK, ReadDone,
       SnapshotIsStable, Within
<1>20. CASE ReadUnstable
  BY <1>20 DEF ProcessorInStep, UpdatesNumbered, InOrder, Retained, InHand, TypeOK,
       ReadUnstable, Fail, Within
<1>21. CASE RememberOrActivate
  BY <1>21 DEF ProcessorInStep, UpdatesNumbered, InOrder, Retained, InHand, TypeOK,
       RememberOrActivate, Activate, OweDiscarded, NewProcessor, Within
<1>22. CASE EnterBackpressure
  BY <1>22 DEF ProcessorInStep, UpdatesNumbered, InOrder, Retained, InHand, TypeOK,
       EnterBackpressure, EndStep
<1>23. CASE StartBlock
  BY <1>23 DEF ProcessorInStep, UpdatesNumbered, InOrder, Retained, InHand, TypeOK, StartBlock,
       Within
<1>24. CASE StepBound
  BY <1>24 DEF ProcessorInStep, UpdatesNumbered, InOrder, Retained, InHand, TypeOK, StepBound,
       EndStep
<1>25. CASE SampleEpoch
  BY <1>25 DEF ProcessorInStep, UpdatesNumbered, InOrder, Retained, InHand, TypeOK, SampleEpoch,
       Within
<1>26. CASE SampleLO
  BY <1>26 DEF ProcessorInStep, UpdatesNumbered, InOrder, Retained, InHand, TypeOK, SampleLO,
       Within
<1>27. CASE ValidBlock
  BY <1>27 DEF ProcessorInStep, UpdatesNumbered, InOrder, Retained, InHand, TypeOK, ValidBlock,
       Within
<1>28. CASE MovedBlock
  BY <1>28 DEF ProcessorInStep, UpdatesNumbered, InOrder, Retained, InHand, TypeOK, MovedBlock,
       Within, BeginRead
<1>29. CASE BrokenBlock
  BY <1>29 DEF ProcessorInStep, UpdatesNumbered, InOrder, Retained, InHand, TypeOK, BrokenBlock,
       ContinuityError, ConsumeIQ, Fail
<1>30. CASE AdoptMovedBlock
  BY <1>30 DEF ProcessorInStep, UpdatesNumbered, InOrder, Retained, InHand, TypeOK,
       AdoptMovedBlock, Activate, OweDiscarded, NewProcessor, ContinuityError, ConsumeIQ, Fail,
       Within
<1>31. CASE ProcessFrame
  <2>1. /\ pc = "process" /\ pc' \in {"idle", "generate"}
        /\ fia \in Nat /\ fia' = fia + 1
        /\ UNCHANGED <<pending, delivered, generated, nextSeq>>
    BY <1>31 DEF ProcessFrame, EndStep, Within, TypeOK
  <2>2. Retained' = Retained /\ ~InHand /\ ~InHand'
    BY <2>1 DEF Retained, InHand
  <2>3. InOrder'
    BY <2>1, <2>2 DEF InOrder
  <2>4. pc' = "generate" => offered'.n = generated + 1 /\ offered'.seq = nextSeq
    <3>1. procSeq = nextSeq
      BY <2>1 DEF ProcessorInStep
    <3>2. pc' = "generate" => offered' = Packets
      BY <1>31 DEF ProcessFrame, EndStep
    <3> QED
      BY <3>1, <3>2 DEF Packets
  <2> QED
    BY <2>1, <2>2, <2>3, <2>4 DEF UpdatesNumbered
<1>32. CASE GenerateUpdate
  <2>1. /\ pc = "generate" /\ pc' = "deliver"
        /\ generated' = generated + 1 /\ nextSeq' = (offered.seq + 1) % SeqMod
        /\ UNCHANGED <<pending, delivered>>
    BY <1>32 DEF GenerateUpdate, Within
  <2>2. offered'.n = offered.n /\ offered'.seq = offered.seq
    BY <1>32 DEF GenerateUpdate, TypeOK, Update
  <2>3. /\ offered.n = generated + 1 /\ offered.seq = (InitialSequence + generated) % SeqMod
        /\ generated = Len(delivered) + Len(Retained)
    BY <2>1 DEF UpdatesNumbered, InHand
  <2>4. generated \in Nat /\ InitialSequence \in Nat /\ SeqMod \in Nat \ {0}
    BY DEF TypeOK
  <2>5. nextSeq' = (InitialSequence + generated') % SeqMod
    <3>1. InitialSequence + generated + 1 = InitialSequence + generated'
      BY <2>1, <2>4
    <3>2. InitialSequence + generated \in Nat
      BY <2>4
    <3>3. (((InitialSequence + generated) % SeqMod) + 1) % SeqMod
             = (InitialSequence + generated + 1) % SeqMod
      BY <2>4, <3>2, NextRemainder
    <3> QED
      BY <2>1, <2>3, <3>1, <3>3
  <2>6. /\ offered'.n = generated'
        /\ offered'.seq = (InitialSequence + generated' - 1) % SeqMod
    <3>1. InitialSequence + generated = InitialSequence + generated' - 1
      BY <2>1, <2>4
    <3> QED
      BY <2>1, <2>2, <2>3, <3>1
  <2>7. Retained' = Retained /\ InHand'
    BY <2>1 DEF Retained, InHand
  <2>8. generated' = Len(delivered') + Len(Retained') + 1
    BY <2>1, <2>3, <2>7
  <2> QED
    BY <2>1, <2>5, <2>6, <2>7, <2>8 DEF UpdatesNumbered, InOrder
<1>33. CASE LossOverflows
  BY <1>33 DEF ProcessorInStep, UpdatesNumbered, InOrder, Retained, InHand, TypeOK,
       LossOverflows, Fail
<1>34. CASE Deliver
  BY <1>34 DEF ProcessorInStep, UpdatesNumbered, InOrder, Retained, InHand, TypeOK, Deliver,
       Within
<1>35. CASE Published
  BY <1>35 DEF ProcessorInStep, UpdatesNumbered, InOrder, Retained, InHand, TypeOK, Published,
       LeaveBackpressure, EndStep
<1>36. CASE Enqueue
  <2>1. pc = "enqueue" /\ ~QueueFull
    BY <1>36 DEF Enqueue, SlotReserved
  <2>2. /\ pc' = "idle" /\ pending' = Append(pending, offered)
        /\ UNCHANGED <<delivered, offered, generated, nextSeq>>
    BY <1>36, <2>1 DEF Enqueue, EndStep
  <2>3. Retained = pending /\ Retained' = pending' /\ InHand /\ ~InHand'
    BY <2>1, <2>2 DEF Retained, InHand
  <2>4. /\ pending \in Seq(Update) /\ delivered \in Seq(Update) /\ offered \in Update
        /\ generated \in Nat /\ InitialSequence \in Nat
    BY DEF TypeOK
  <2>5. /\ generated = Len(delivered) + Len(pending) + 1 /\ offered.n = generated
        /\ offered.seq = (InitialSequence + generated - 1) % SeqMod
    BY <2>3 DEF UpdatesNumbered
  <2>6. /\ offered.n = Len(delivered) + Len(pending) + 1
        /\ InitialSequence + generated - 1 = InitialSequence + Len(delivered) + Len(pending)
    BY <2>4, <2>5
  <2>7. Numbered(pending', Len(delivered))
    BY <2>2, <2>3, <2>4, <2>5, <2>6, NumberedAppend DEF InOrder
  <2>8. InOrder'
    BY <2>2, <2>3, <2>7 DEF InOrder
  <2>9. Len(pending') = Len(pending) + 1
    BY <2>2, <2>4
  <2> QED
    BY <2>1, <2>2, <2>3, <2>4, <2>5, <2>8, <2>9 DEF UpdatesNumbered
<1>37. CASE SinkAccepts
  <2>1. /\ delivered' = Append(delivered, offered)
        /\ UNCHANGED <<pending, offered, generated, nextSeq>>
    BY <1>37 DEF SinkAccepts
  <2>2. /\ pending \in Seq(Update) /\ delivered \in Seq(Update) /\ offered \in Update
        /\ generated \in Nat /\ InitialSequence \in Nat
    BY DEF TypeOK
  <2>3. Len(delivered') = Len(delivered) + 1
    BY <2>1, <2>2
  <2>4. CASE pc = "retryCall"
    <3>1. pc' = "retryAccepted"
      BY <1>37, <2>4 DEF SinkAccepts, Within
    <3>2. pending # << >> /\ offered = Head(pending)
      BY <2>4 DEF UpdatesNumbered
    <3>3. Retained = pending /\ Retained' = Tail(pending) /\ ~InHand /\ ~InHand'
      BY <2>1, <2>4, <3>1 DEF Retained, InHand
    <3>4. 1 \in 0 .. Len(pending) /\ Tail(pending) = SubSeq(pending, 1 + 1, Len(pending))
      BY <2>2, <3>2
    <3>5. delivered' = delivered \o SubSeq(pending, 1, 1)
      BY <2>1, <2>2, <3>2
    <3>6. InOrder'
      BY <2>2, <2>3, <3>3, <3>4, <3>5, NumberedTake DEF InOrder
    <3>7. Len(Tail(pending)) = Len(pending) - 1
      BY <2>2, <3>2
    <3> QED
      BY <2>1, <2>2, <2>3, <2>4, <3>1, <3>2, <3>3, <3>6, <3>7 DEF UpdatesNumbered
  <2>5. CASE pc = "deliverCall"
    <3>1. pc' = "delivered" /\ pending = << >>
      BY <1>37, <2>5 DEF SinkAccepts, Within, UpdatesNumbered
    <3>2. Retained = << >> /\ Retained' = << >> /\ InHand /\ ~InHand'
      BY <2>1, <2>5, <3>1 DEF Retained, InHand
    <3>3. /\ generated = Len(delivered) + 1 /\ offered.n = generated
          /\ offered.seq = (InitialSequence + generated - 1) % SeqMod
      BY <2>2, <3>2 DEF UpdatesNumbered
    <3>4. /\ offered.n = 0 + Len(delivered) + 1
          /\ InitialSequence + generated - 1 = InitialSequence + 0 + Len(delivered)
      BY <2>2, <3>3
    <3>5. Numbered(delivered', 0)
      BY <2>1, <2>2, <3>3, <3>4, NumberedAppend DEF InOrder
    <3>6. InOrder'
      BY <3>2, <3>5 DEF InOrder, Numbered
    <3> QED
      BY <2>1, <2>2, <2>3, <2>5, <3>1, <3>2, <3>3, <3>6 DEF UpdatesNumbered
  <2> QED
    BY <1>37, <2>4, <2>5 DEF SinkAccepts
<1>38. CASE SinkRejects
  BY <1>38 DEF ProcessorInStep, UpdatesNumbered, InOrder, Retained, InHand, TypeOK, SinkRejects,
       Within, BeginRead
<1>39. CASE UNCHANGED vars
  BY <1>39 DEF ProcessorInStep, UpdatesNumbered, InOrder, Retained, InHand, TypeOK, vars
<1> QED
  BY <1>1, <1>2, <1>3, <1>4, <1>5, <1>6, <1>7, <1>8, <1>9, <1>10, <1>11, <1>12, <1>13, <1>14,
       <1>15, <1>16, <1>17, <1>18, <1>19, <1>20, <1>21, <1>22, <1>23, <1>24, <1>25, <1>26,
       <1>27, <1>28, <1>29, <1>30, <1>31, <1>32, <1>33, <1>34, <1>35, <1>36, <1>37, <1>38, <1>39
       DEF Next, Environment, Step, Sink

-----------------------------------------------------------------------------
(* What the updates average.                                               *)

\* What consumers and the queue can do to the set of updates.
LEMMA UpdatesTaken ==
  ASSUME TypeOK, NEW count \in 1 .. Len(pending), TakePending(count)
  PROVE  Updates' \subseteq Updates
<1>1. pending \in Seq(Update) /\ delivered \in Seq(Update) /\ count \in Nat
  BY DEF TypeOK
<1>2. /\ delivered' = delivered \o SubSeq(pending, 1, count)
      /\ pending' = SubSeq(pending, count + 1, Len(pending))
  BY DEF TakePending
<1>3. /\ Len(delivered') = Len(delivered) + count
      /\ \A k \in 1 .. Len(delivered) : delivered'[k] = delivered[k]
      /\ \A k \in Len(delivered) + 1 .. Len(delivered) + count :
            delivered'[k] = pending[k - Len(delivered)]
  BY <1>1, <1>2
<1>4. /\ Len(pending') = Len(pending) - count
      /\ \A k \in 1 .. Len(pending) - count : pending'[k] = pending[k + count]
  BY <1>1, <1>2
<1>5. ASSUME NEW k \in 1 .. Len(delivered') PROVE delivered'[k] \in Updates
  <2>1. CASE k <= Len(delivered)
    <3>1. k \in 1 .. Len(delivered) /\ delivered'[k] = delivered[k]
      BY <1>1, <1>3, <2>1
    <3> QED
      BY <3>1 DEF Updates
  <2>2. CASE k > Len(delivered)
    <3>1. k - Len(delivered) \in 1 .. Len(pending)
      BY <1>1, <1>3, <2>2
    <3>2. delivered'[k] = pending[k - Len(delivered)]
      BY <1>1, <1>3, <2>2
    <3> QED
      BY <3>1, <3>2 DEF Updates
  <2> QED
    BY <1>1, <1>3, <2>1, <2>2
<1>6. ASSUME NEW k \in 1 .. Len(pending') PROVE pending'[k] \in Updates
  <2>1. k + count \in 1 .. Len(pending) /\ pending'[k] = pending[k + count]
    BY <1>1, <1>4
  <2> QED
    BY <2>1 DEF Updates
<1> QED
  BY <1>5, <1>6 DEF Updates

\* A retry that was accepted takes the oldest update off.
LEMMA UpdatesRetried ==
  ASSUME TypeOK, pending # << >>, pending' = Tail(pending), delivered' = delivered
  PROVE  Updates' \subseteq Updates
<1>1. pending \in Seq(Update)
  BY DEF TypeOK
<1>2. \A k \in 1 .. Len(pending') : k + 1 \in 1 .. Len(pending) /\ pending'[k] = pending[k + 1]
  BY <1>1
<1>3. ASSUME NEW k \in 1 .. Len(pending') PROVE pending'[k] \in Updates
  BY <1>2 DEF Updates
<1> QED
  BY <1>3 DEF Updates

\* An update that is queued or delivered is one more.
LEMMA UpdatesAdded ==
  ASSUME TypeOK,
         \/ pending' = Append(pending, offered) /\ delivered' = delivered
         \/ delivered' = Append(delivered, offered) /\ pending' = pending
  PROVE  Updates' = Updates \cup {offered}
<1> DEFINE Elements(s) == {s[k] : k \in 1 .. Len(s)}
<1>1. ASSUME NEW s \in Seq(Update)
      PROVE  Elements(Append(s, offered)) = Elements(s) \cup {offered}
  <2>1. Len(Append(s, offered)) = Len(s) + 1
    OBVIOUS
  <2>2. \A k \in 1 .. Len(s) : k \in 1 .. Len(s) + 1 /\ Append(s, offered)[k] = s[k]
    OBVIOUS
  <2>3. Len(s) + 1 \in 1 .. Len(s) + 1 /\ Append(s, offered)[Len(s) + 1] = offered
    OBVIOUS
  <2>4. \A k \in 1 .. Len(s) + 1 : k \in 1 .. Len(s) \/ k = Len(s) + 1
    OBVIOUS
  <2> QED
    BY <2>1, <2>2, <2>3, <2>4
<1>2. Updates = Elements(delivered) \cup Elements(pending)
  BY DEF Updates
<1>3. Updates' = Elements(delivered') \cup Elements(pending')
  BY DEF Updates
<1>4. Elements(Append(pending, offered)) = Elements(pending) \cup {offered}
  BY <1>1 DEF TypeOK
<1>5. Elements(Append(delivered, offered)) = Elements(delivered) \cup {offered}
  BY <1>1 DEF TypeOK
<1> HIDE DEF Elements
<1> QED
  BY <1>2, <1>3, <1>4, <1>5

\* One more frame of samples.
LEMMA OneMore ==
  ASSUME NEW n \in Nat, NEW size \in Nat
  PROVE  (n + 1) * size = n * size + size /\ 0 * size = 0
BY SMT

\* Steps that only retune the radio, read the RF model or swap the publisher.
LEMMA SoundOutside ==
  ASSUME SoundInv, UNCHANGED <<control, input, output, readVars>>
  PROVE  SoundInv'
<1> USE DEF control, input, output, threadVars, readVars, blockVars, procVars, madeVars,
            consumed, queueVars
<1>1. AverageSound'
  BY DEF SoundInv, AverageSound
<1>2. StepSound'
  BY DEF SoundInv, StepSound, Offering, Compared, Sampling, Revalidating, ReadLabels,
     Consecutive, OneEpoch, FirstIndex, Sound
<1>3. SoundUpdates'
  BY DEF SoundInv, SoundUpdates, Updates
<1> QED
  BY <1>1, <1>2, <1>3 DEF SoundInv

\* Every step keeps the average, the block and the updates sound.
LEMMA SoundStep ==
  ASSUME IInv, SoundInv, [Next]_vars
  PROVE  SoundInv'
<1> USE RuntimeAssumption DEF IInv, outside, control, input, output, radioVars, rfVars, threadVars,
       readVars, blockVars, procVars, madeVars, consumed, queueVars
<1>1. CASE SetLO
  BY <1>1, SoundOutside DEF SetLO, Retuned
<1>2. CASE SetSampleRate
  BY <1>2, SoundOutside DEF SetSampleRate, Retuned
<1>3. CASE SetOther
  BY <1>3, SoundOutside DEF SetOther, Retuned
<1>4. CASE BumpEpoch
  BY <1>4, SoundOutside DEF BumpEpoch
<1>5. CASE ForeignRead
  BY <1>5, SoundOutside DEF ForeignRead
<1>6. CASE SetPublisher
  BY <1>6, SoundOutside DEF SetPublisher
<1>7. CASE Start
  BY <1>7 DEF SoundInv, TypeOK, ProcessorInStep, AverageSound, StepSound, SoundUpdates, Updates,
       Offering, Compared, Sampling, Revalidating, ReadLabels, Consecutive, OneEpoch,
       FirstIndex, Sound, Start
<1>8. CASE Stop
  BY <1>8 DEF SoundInv, TypeOK, ProcessorInStep, AverageSound, StepSound, SoundUpdates, Updates,
       Offering, Compared, Sampling, Revalidating, ReadLabels, Consecutive, OneEpoch,
       FirstIndex, Sound, Stop
<1>9. CASE CallStep
  BY <1>9 DEF SoundInv, TypeOK, ProcessorInStep, AverageSound, StepSound, SoundUpdates, Updates,
       Offering, Compared, Sampling, Revalidating, ReadLabels, Consecutive, OneEpoch,
       FirstIndex, Sound, CallStep
<1>10. CASE Drain
  <2>1. Updates' \subseteq Updates
    BY <1>10, UpdatesTaken DEF Drain
  <2>2. /\ UNCHANGED <<outside, control, input, readVars, madeVars, offered>>
    BY <1>10 DEF Drain
  <2> QED
    BY <2>1, <2>2 DEF SoundInv, AverageSound, StepSound, SoundUpdates, Offering, Compared,
       Sampling, Revalidating, ReadLabels, Consecutive, OneEpoch, FirstIndex, Sound
<1>11. CASE WorkerLoop
  BY <1>11 DEF SoundInv, TypeOK, ProcessorInStep, AverageSound, StepSound, SoundUpdates,
       Updates, Offering, Compared, Sampling, Revalidating, ReadLabels, Consecutive, OneEpoch,
       FirstIndex, Sound, WorkerLoop
<1>12. ASSUME NEW who \in {"worker", "caller"}, BeginStep(who) PROVE (SoundInv)'
  BY <1>12 DEF SoundInv, TypeOK, ProcessorInStep, AverageSound, StepSound, SoundUpdates,
       Updates, Offering, Compared, Sampling, Revalidating, ReadLabels, Consecutive, OneEpoch,
       FirstIndex, Sound, BeginStep
<1>13. ASSUME NEW who \in {"worker", "caller"}, RefuseStep(who) PROVE (SoundInv)'
  BY <1>13 DEF SoundInv, TypeOK, ProcessorInStep, AverageSound, StepSound, SoundUpdates,
       Updates, Offering, Compared, Sampling, Revalidating, ReadLabels, Consecutive, OneEpoch,
       FirstIndex, Sound, RefuseStep
<1>14. CASE RetryOldestPending
  BY <1>14 DEF SoundInv, TypeOK, ProcessorInStep, AverageSound, StepSound, SoundUpdates,
       Updates, Offering, Compared, Sampling, Revalidating, ReadLabels, Consecutive, OneEpoch,
       FirstIndex, Sound, RetryOldestPending, Within, BeginRead
<1>15. CASE RetryAccepted
  <2>1. Updates' \subseteq Updates
    <3>1. CASE OfferedIsHead
      BY <1>15, <3>1, UpdatesRetried DEF RetryAccepted, OfferedIsHead
    <3>2. CASE ~OfferedIsHead
      BY <1>15, <3>2 DEF RetryAccepted, Updates
    <3> QED
      BY <3>1, <3>2
  <2>2. pc = "retryAccepted" /\ pc' = "readEpoch" /\ reading' = "observe"
        /\ UNCHANGED <<input, terminal>>
    BY <1>15 DEF RetryAccepted, Within, BeginRead
  <2> QED
    BY <2>1, <2>2 DEF SoundInv, AverageSound, StepSound, SoundUpdates, Offering, Compared,
       Sampling, Revalidating
<1>16. CASE ReadEpoch
  BY <1>16 DEF SoundInv, TypeOK, ProcessorInStep, AverageSound, StepSound, SoundUpdates,
       Updates, Offering, Compared, Sampling, Revalidating, ReadLabels, Consecutive, OneEpoch,
       FirstIndex, Sound, ReadEpoch, ReadStep, Within
<1>17. CASE ReadRate
  BY <1>17 DEF SoundInv, TypeOK, ProcessorInStep, AverageSound, StepSound, SoundUpdates,
       Updates, Offering, Compared, Sampling, Revalidating, ReadLabels, Consecutive, OneEpoch,
       FirstIndex, Sound, ReadRate, ReadStep, Within
<1>18. CASE ReadLO
  BY <1>18 DEF SoundInv, TypeOK, ProcessorInStep, AverageSound, StepSound, SoundUpdates,
       Updates, Offering, Compared, Sampling, Revalidating, ReadLabels, Consecutive, OneEpoch,
       FirstIndex, Sound, ReadLO, ReadStep, Within
<1>19. CASE ReadDone
  BY <1>19 DEF SoundInv, TypeOK, ProcessorInStep, AverageSound, StepSound, SoundUpdates,
       Updates, Offering, Compared, Sampling, Revalidating, ReadLabels, Consecutive, OneEpoch,
       FirstIndex, Sound, ReadDone, SnapshotIsStable, Within
<1>20. CASE ReadUnstable
  BY <1>20 DEF SoundInv, TypeOK, ProcessorInStep, AverageSound, StepSound, SoundUpdates,
       Updates, Offering, Compared, Sampling, Revalidating, ReadLabels, Consecutive, OneEpoch,
       FirstIndex, Sound, ReadUnstable, Fail, Within
<1>21. CASE RememberOrActivate
  <2>1. /\ pc = "activate" /\ pc' = "reserve" /\ terminal' = terminal
        /\ UNCHANGED <<outside, output, readVars, blockVars, consumed>>
    BY <1>21 DEF RememberOrActivate, Within
  <2>2. active' = observed /\ AverageSound'
    <3>1. CASE observed # active
      <4>1. active' = observed /\ procCount' = 0 /\ averaging' = NothingAveraged
        BY <1>21, <3>1 DEF RememberOrActivate, Activate, NewProcessor
      <4>2. FramesPerUpdate[observed.rate] \in Nat \ {0}
        BY DEF TypeOK, Radio
      <4> QED
        BY <4>1, <4>2 DEF AverageSound, NothingAveraged
    <3>2. CASE observed = active
      BY <1>21, <2>1, <3>2 DEF RememberOrActivate, SoundInv, AverageSound
    <3> QED
      BY <3>1, <3>2
  <2>3. StepSound' /\ SoundUpdates'
    BY <2>1, <2>2 DEF SoundInv, StepSound, SoundUpdates, Updates, Offering, Compared, Sampling,
       Revalidating, ReadLabels
  <2> QED
    BY <2>2, <2>3 DEF SoundInv
<1>22. CASE EnterBackpressure
  BY <1>22 DEF SoundInv, TypeOK, ProcessorInStep, AverageSound, StepSound, SoundUpdates,
       Updates, Offering, Compared, Sampling, Revalidating, ReadLabels, Consecutive, OneEpoch,
       FirstIndex, Sound, EnterBackpressure, EndStep
<1>23. CASE StartBlock
  <2>1. /\ pc = "reserve" /\ pc' = "sample" /\ terminal' = terminal
        /\ UNCHANGED <<outside, output, readVars, procVars, consumed>>
    BY <1>23 DEF StartBlock, Within
  <2> QED
    BY <2>1 DEF SoundInv, AverageSound, StepSound, SoundUpdates, Updates, Offering, Compared,
       Sampling, Revalidating, ReadLabels
<1>24. CASE StepBound
  BY <1>24 DEF SoundInv, TypeOK, ProcessorInStep, AverageSound, StepSound, SoundUpdates,
       Updates, Offering, Compared, Sampling, Revalidating, ReadLabels, Consecutive, OneEpoch,
       FirstIndex, Sound, StepBound, EndStep
<1>25. CASE SampleEpoch
  BY <1>25 DEF SoundInv, TypeOK, ProcessorInStep, AverageSound, StepSound, SoundUpdates,
       Updates, Offering, Compared, Sampling, Revalidating, ReadLabels, Consecutive, OneEpoch,
       FirstIndex, Sound, SampleEpoch, Within
<1>26. CASE SampleLO
  BY <1>26 DEF SoundInv, TypeOK, ProcessorInStep, AverageSound, StepSound, SoundUpdates,
       Updates, Offering, Compared, Sampling, Revalidating, ReadLabels, Consecutive, OneEpoch,
       FirstIndex, Sound, SampleLO, Within
<1>27. CASE ValidBlock
  BY <1>27 DEF SoundInv, TypeOK, ProcessorInStep, AverageSound, StepSound, SoundUpdates,
       Updates, Offering, Compared, Sampling, Revalidating, ReadLabels, Consecutive, OneEpoch,
       FirstIndex, Sound, ValidBlock, Within
<1>28. CASE MovedBlock
  BY <1>28 DEF SoundInv, TypeOK, ProcessorInStep, AverageSound, StepSound, SoundUpdates,
       Updates, Offering, Compared, Sampling, Revalidating, ReadLabels, Consecutive, OneEpoch,
       FirstIndex, Sound, MovedBlock, Within, BeginRead
<1>29. CASE BrokenBlock
  BY <1>29 DEF SoundInv, TypeOK, ProcessorInStep, AverageSound, StepSound, SoundUpdates,
       Updates, Offering, Compared, Sampling, Revalidating, ReadLabels, Consecutive, OneEpoch,
       FirstIndex, Sound, BrokenBlock, ContinuityError, ConsumeIQ, Fail
<1>30. CASE AdoptMovedBlock
  <2>1. /\ pc = "match" /\ terminal = "none" /\ snap.epoch = block[1].epoch
        /\ UNCHANGED <<outside, output, readVars>>
        /\ pc' \in {"process", "idle"}
        /\ pc' = "process" => terminal' = "none" /\ UNCHANGED <<block, consumed>>
        /\ pc' = "idle" => terminal' # "none"
    BY <1>30 DEF AdoptMovedBlock, Within, ContinuityError, Fail, ProcessorInStep
  <2>2. active' = snap /\ (terminal' = "none" => AverageSound')
    <3>1. CASE snap # active
      <4>1. active' = snap /\ procCount' = 0 /\ averaging' = NothingAveraged
        BY <1>30, <3>1 DEF AdoptMovedBlock, Activate, NewProcessor
      <4>2. FramesPerUpdate[snap.rate] \in Nat \ {0}
        BY DEF TypeOK, Radio
      <4> QED
        BY <4>1, <4>2 DEF AverageSound, NothingAveraged
    <3>2. CASE snap = active
      BY <1>30, <2>1, <3>2 DEF AdoptMovedBlock, SoundInv, AverageSound
    <3> QED
      BY <3>1, <3>2
  <2>3. Compared
    BY <2>1 DEF Compared
  <2>4. StepSound'
    BY <2>1, <2>2, <2>3 DEF SoundInv, StepSound, Offering, Compared, Sampling, Revalidating,
       ReadLabels, Consecutive, OneEpoch, FirstIndex
  <2>5. SoundUpdates'
    BY <2>1 DEF SoundInv, SoundUpdates, Updates
  <2> QED
    BY <2>2, <2>4, <2>5 DEF SoundInv, AverageSound
<1>31. CASE ProcessFrame
  <2>1. /\ pc = "process" /\ terminal = "none" /\ HoldsBlock
        /\ active' = active /\ expected' = NextIndex
        /\ UNCHANGED <<pending, delivered>>
    BY <1>31 DEF ProcessFrame, ConsumeIQ, ProcessorInStep, HoldsBlock
  <2>2. /\ Consecutive /\ OneEpoch /\ block[1].epoch = active.epoch
        /\ active \in Config /\ procCount \in Nat /\ FFTSize \in Nat \ {0}
        /\ FramesPerUpdate[active.rate] \in Nat /\ procCount < FramesPerUpdate[active.rate]
    <3>1. Compared
      BY <2>1 DEF Compared
    <3> QED
      BY <2>1, <3>1 DEF SoundInv, AverageSound, StepSound, TypeOK, Config
  <2>3. /\ FirstIndex \in Nat /\ NextIndex = FirstIndex + FFTSize
        /\ expected # NoIndex => FirstIndex = expected
    <3>1. block[FFTSize].index = FirstIndex + FFTSize - 1
      BY <2>2 DEF Consecutive
    <3> QED
      BY <2>1, <2>2, <3>1, BlockIndices DEF Consecutive, NextIndex
  <2>4. \A t \in Averaged.seen : t.epoch = active.epoch
    <3>1. \A k \in 1 .. FFTSize : TuningOf(block[k]).epoch = active.epoch
      BY <2>2 DEF OneEpoch, TuningOf
    <3> QED
      BY <2>1, <3>1 DEF SoundInv, AverageSound, Averaged
  <2>5. /\ Averaged.first # NoIndex /\ Averaged.first \in Nat
        /\ NextIndex - Averaged.first = (procCount + 1) * FFTSize
    <3>1. CASE procCount = 0
      <4>1. Averaged.first = FirstIndex
        BY <2>1, <3>1 DEF SoundInv, AverageSound, Averaged, NothingAveraged
      <4> QED
        BY <2>2, <2>3, <3>1, <4>1, OneMore DEF NoIndex
    <3>2. CASE procCount > 0
      <4>1. /\ averaging.first # NoIndex /\ expected # NoIndex
            /\ expected - averaging.first = procCount * FFTSize
        BY <2>1, <3>2 DEF SoundInv, AverageSound
      <4>2. averaging.first \in Nat /\ Averaged.first = averaging.first
        BY <4>1 DEF TypeOK, Averaged
      <4>3. (procCount + 1) * FFTSize = procCount * FFTSize + FFTSize
        BY <2>2, OneMore
      <4> QED
        BY <2>3, <4>1, <4>2, <4>3 DEF NoIndex
    <3> QED
      BY <2>2, <3>1, <3>2
  <2>6. SoundUpdates'
    BY <2>1 DEF SoundInv, SoundUpdates, Updates
  <2>7. CASE procCount + 1 < FramesPerUpdate[active.rate]
    <3>1. procCount' = procCount + 1 /\ averaging' = Averaged /\ pc' = "idle"
      BY <1>31, <2>7 DEF ProcessFrame, EndStep
    <3>2. expected' # NoIndex
      BY <2>1, <2>2, <2>3 DEF NoIndex
    <3>3. AverageSound'
      BY <2>1, <2>2, <2>4, <2>5, <2>7, <3>1, <3>2 DEF AverageSound
    <3>4. StepSound'
      BY <3>1 DEF StepSound, Compared, Offering, Sampling, Revalidating, ReadLabels
    <3> QED
      BY <2>6, <3>3, <3>4 DEF SoundInv
  <2>8. CASE ~(procCount + 1 < FramesPerUpdate[active.rate])
    <3>1. /\ offered' = Packets /\ procCount' = 0 /\ averaging' = NothingAveraged
          /\ pc' = "generate"
      BY <1>31, <2>8 DEF ProcessFrame, Within
    <3>2. AverageSound'
      BY <2>1, <2>2, <3>1 DEF AverageSound, NothingAveraged
    <3>3. /\ offered'.radio = active /\ offered'.frames = procCount + 1
          /\ offered'.span = NextIndex - Averaged.first /\ offered'.seen = Averaged.seen
      BY <3>1 DEF Packets
    <3>4. procCount + 1 = FramesPerUpdate[active.rate]
      BY <2>2, <2>8
    <3>5. Sound(offered)'
      BY <2>4, <2>5, <3>3, <3>4 DEF Sound
    <3>6. StepSound'
      BY <3>1, <3>5 DEF StepSound, Compared, Offering, Sampling, Revalidating, ReadLabels
    <3> QED
      BY <2>6, <3>2, <3>6 DEF SoundInv
  <2> QED
    BY <2>7, <2>8
<1>32. CASE GenerateUpdate
  BY <1>32 DEF SoundInv, TypeOK, ProcessorInStep, AverageSound, StepSound, SoundUpdates,
       Updates, Offering, Compared, Sampling, Revalidating, ReadLabels, Consecutive, OneEpoch,
       FirstIndex, Sound, GenerateUpdate, Within
<1>33. CASE LossOverflows
  BY <1>33 DEF SoundInv, TypeOK, ProcessorInStep, AverageSound, StepSound, SoundUpdates,
       Updates, Offering, Compared, Sampling, Revalidating, ReadLabels, Consecutive, OneEpoch,
       FirstIndex, Sound, LossOverflows, Fail
<1>34. CASE Deliver
  BY <1>34 DEF SoundInv, TypeOK, ProcessorInStep, AverageSound, StepSound, SoundUpdates,
       Updates, Offering, Compared, Sampling, Revalidating, ReadLabels, Consecutive, OneEpoch,
       FirstIndex, Sound, Deliver, Within
<1>35. CASE Published
  BY <1>35 DEF SoundInv, TypeOK, ProcessorInStep, AverageSound, StepSound, SoundUpdates,
       Updates, Offering, Compared, Sampling, Revalidating, ReadLabels, Consecutive, OneEpoch,
       FirstIndex, Sound, Published, LeaveBackpressure, EndStep
<1>36. CASE Enqueue
  <2>1. pc = "enqueue" /\ ~QueueFull
    BY <1>36 DEF Enqueue, SlotReserved
  <2>2. /\ pending' = Append(pending, offered) /\ delivered' = delivered /\ pc' = "idle"
        /\ UNCHANGED <<input, terminal>>
    BY <1>36, <2>1 DEF Enqueue, EndStep
  <2>3. Updates' = Updates \cup {offered}
    BY <2>2, UpdatesAdded
  <2>4. Sound(offered)
    BY <2>1 DEF SoundInv, StepSound, Offering
  <2>5. SoundUpdates'
    BY <2>3, <2>4 DEF SoundInv, SoundUpdates, Sound
  <2> QED
    BY <2>2, <2>5 DEF SoundInv, AverageSound, StepSound, Offering, Compared, Sampling,
       Revalidating, ReadLabels
<1>37. CASE SinkAccepts
  <2>1. /\ delivered' = Append(delivered, offered) /\ pending' = pending
        /\ pc \in {"retryCall", "deliverCall"} /\ pc' \in {"retryAccepted", "delivered"}
        /\ UNCHANGED <<input, terminal>>
    BY <1>37 DEF SinkAccepts, Within
  <2>2. Updates' = Updates \cup {offered}
    BY <2>1, UpdatesAdded
  <2>3. Sound(offered)
    BY <2>1 DEF SoundInv, StepSound, Offering
  <2>4. SoundUpdates'
    BY <2>2, <2>3 DEF SoundInv, SoundUpdates, Sound
  <2> QED
    BY <2>1, <2>4 DEF SoundInv, AverageSound, StepSound, Offering, Compared, Sampling,
       Revalidating, ReadLabels
<1>38. CASE SinkRejects
  BY <1>38 DEF SoundInv, TypeOK, ProcessorInStep, AverageSound, StepSound, SoundUpdates,
       Updates, Offering, Compared, Sampling, Revalidating, ReadLabels, Consecutive, OneEpoch,
       FirstIndex, Sound, SinkRejects, Within, BeginRead
<1>39. CASE UNCHANGED vars
  BY <1>39 DEF SoundInv, TypeOK, ProcessorInStep, AverageSound, StepSound, SoundUpdates,
       Updates, Offering, Compared, Sampling, Revalidating, ReadLabels, Consecutive, OneEpoch,
       FirstIndex, Sound, vars
<1> QED
  BY <1>1, <1>2, <1>3, <1>4, <1>5, <1>6, <1>7, <1>8, <1>9, <1>10, <1>11, <1>12, <1>13, <1>14,
       <1>15, <1>16, <1>17, <1>18, <1>19, <1>20, <1>21, <1>22, <1>23, <1>24, <1>25, <1>26,
       <1>27, <1>28, <1>29, <1>30, <1>31, <1>32, <1>33, <1>34, <1>35, <1>36, <1>37, <1>38, <1>39
       DEF Next, Environment, Step, Sink

-----------------------------------------------------------------------------
(* One thread for the setters and the steps.                               *)

\* A setter between two steps makes the configuration in use out of date.
LEMMA RetunedBetween ==
  ASSUME IInv, ~ConcurrentRadio, OneTuning, NEW r, r.epoch = radio.epoch, Retuned(r)
  PROVE  OneTuning'
<1> USE DEF outside, control, input, output, radioVars, rfVars, threadVars, readVars, blockVars,
            procVars, madeVars, consumed, queueVars
<1>1. /\ pc = "idle" /\ radio' = r /\ unbumped' = unbumped + 1 /\ unbumped \in Nat
      /\ UNCHANGED <<control, input, output, readVars>>
  BY DEF Retuned, IInv, TypeOK
<1>2. RadioStill'
  BY <1>1 DEF OneTuning, RadioStill, Sampling
<1>3. TuningKept' /\ EpochNamesRadio' /\ NoRetuneMixed'
  BY <1>1 DEF OneTuning, TuningKept, EpochNamesRadio, NoRetuneMixed, Updates, Dated, Sampling,
     HoldsBlock, Revalidating, ReadLabels, Offering
<1> QED
  BY <1>2, <1>3 DEF OneTuning

\* A step that only moves on, or moves updates, keeps what was averaged.
LEMMA UpdatesStayTuned ==
  ASSUME OneTuning, Updates' \subseteq Updates, UNCHANGED <<active, averaging>>
  PROVE  /\ \A t \in averaging'.seen : t.lo = active'.lo
         /\ \A u \in Updates' : Dated(u)'
         /\ EpochNamesRadio' /\ NoRetuneMixed'
BY DEF OneTuning, TuningKept, EpochNamesRadio, NoRetuneMixed, Dated

\* A configuration is activated that is newer than those of all updates.
LEMMA ActivatedTuned ==
  ASSUME IInv, OneTuning, Activate(radio), radio # active, unbumped = 0, UNCHANGED <<radio, unbumped, output>>
  PROVE  /\ active' = radio' /\ averaging' = NothingAveraged
         /\ \A u \in Updates' : Dated(u)'
         /\ EpochNamesRadio' /\ NoRetuneMixed'
<1>1. active' = radio /\ averaging' = NothingAveraged
  BY DEF Activate, NewProcessor
<1>2. active.epoch < radio.epoch
  <2>1. radio.epoch \in Nat /\ active.epoch \in Nat \cup {NoEpoch}
    BY DEF IInv, TypeOK, Radio, Config
  <2>2. active.epoch <= radio.epoch /\ active.epoch # radio.epoch
    BY DEF OneTuning, RadioStill
  <2> QED
    BY <2>1, <2>2 DEF NoEpoch
<1>3. Updates' = Updates
  BY DEF Updates, output, queueVars
<1>4. ASSUME NEW u \in Updates
      PROVE  u.radio.epoch \in Int /\ active.epoch \in Int /\ radio.epoch \in Int
  <2>1. u \in Update /\ active \in Config /\ radio \in Radio
    BY DEF Updates, IInv, TypeOK
  <2> QED
    BY <2>1 DEF Update, Config, Radio, NoEpoch
<1> QED
  BY <1>1, <1>2, <1>3, <1>4 DEF OneTuning, TuningKept, Dated, EpochNamesRadio, NoRetuneMixed

\* With one thread for everything, every step keeps the tunings apart.
LEMMA RadioStep ==
  ASSUME IInv, ~ConcurrentRadio, OneTuning, [Next]_vars
  PROVE  OneTuning'
<1> USE RuntimeAssumption DEF IInv, outside, control, input, output, radioVars, rfVars, threadVars,
       readVars, blockVars, procVars, madeVars, consumed, queueVars
<1>1. CASE SetLO
  <2>1. PICK r \in {[radio EXCEPT !.lo = x] : x \in LOs} : Retuned(r)
    BY <1>1 DEF SetLO
  <2>2. r.epoch = radio.epoch
    BY DEF TypeOK, Radio
  <2> QED
    BY <2>1, <2>2, RetunedBetween
<1>2. CASE SetSampleRate
  <2>1. PICK r \in {[radio EXCEPT !.rate = x] : x \in Rates} : Retuned(r)
    BY <1>2 DEF SetSampleRate
  <2>2. r.epoch = radio.epoch
    BY DEF TypeOK, Radio
  <2> QED
    BY <2>1, <2>2, RetunedBetween
<1>3. CASE SetOther
  BY <1>3, RetunedBetween DEF SetOther
<1>4. CASE BumpEpoch
  <2>1. /\ unbumped > 0 /\ radio' = [radio EXCEPT !.epoch = radio.epoch + 1] /\ unbumped' = unbumped - 1
        /\ UNCHANGED <<control, input, output, readVars>>
    BY <1>4 DEF BumpEpoch
  <2>2. pc = "idle"
    BY <2>1 DEF OneTuning, RadioStill
  <2>3. radio'.epoch = radio.epoch + 1 /\ radio.epoch \in Int /\ active.epoch \in Int
    BY <2>1 DEF TypeOK, Radio, Config, NoEpoch
  <2>4. RadioStill'
    BY <2>1, <2>2, <2>3 DEF OneTuning, RadioStill, Sampling
  <2>5. Updates' = Updates
    BY <2>1 DEF Updates
  <2> QED
    BY <2>1, <2>2, <2>4, <2>5, UpdatesStayTuned DEF OneTuning, TuningKept, Sampling, HoldsBlock,
       Revalidating, ReadLabels, Offering
<1>5. CASE ForeignRead
  BY <1>5 DEF TypeOK, ProcessorInStep, Radio, Config, OneTuning, RadioStill, TuningKept,
       EpochNamesRadio, NoRetuneMixed, TunedTo, Dated, Updates, Offering, HoldsBlock, Sampling,
       Revalidating, ReadLabels, ForeignRead
<1>6. CASE SetPublisher
  BY <1>6 DEF TypeOK, ProcessorInStep, Radio, Config, OneTuning, RadioStill, TuningKept,
       EpochNamesRadio, NoRetuneMixed, TunedTo, Dated, Updates, Offering, HoldsBlock, Sampling,
       Revalidating, ReadLabels, SetPublisher
<1>7. CASE Start
  BY <1>7 DEF TypeOK, ProcessorInStep, Radio, Config, OneTuning, RadioStill, TuningKept,
       EpochNamesRadio, NoRetuneMixed, TunedTo, Dated, Updates, Offering, HoldsBlock, Sampling,
       Revalidating, ReadLabels, Start
<1>8. CASE Stop
  <2>1. pc' = pc /\ UNCHANGED <<outside, input, output, readVars>>
    BY <1>8 DEF Stop
  <2>2. Updates' = Updates
    BY <2>1 DEF Updates
  <2>3. Dated(offered) => Dated(offered)'
    BY <2>1 DEF Dated
  <2> QED
    BY <2>1, <2>2, <2>3, UpdatesStayTuned DEF OneTuning, RadioStill, TuningKept, Sampling,
       HoldsBlock, Revalidating, ReadLabels, Offering
<1>9. CASE CallStep
  BY <1>9 DEF TypeOK, ProcessorInStep, Radio, Config, OneTuning, RadioStill, TuningKept,
       EpochNamesRadio, NoRetuneMixed, TunedTo, Dated, Updates, Offering, HoldsBlock, Sampling,
       Revalidating, ReadLabels, CallStep
<1>10. CASE Drain
  <2>1. Updates' \subseteq Updates
    BY <1>10, UpdatesTaken DEF Drain
  <2>2. UNCHANGED <<outside, control, input, readVars, madeVars, offered>>
    BY <1>10 DEF Drain
  <2>3. Dated(offered) => Dated(offered)'
    BY <2>2 DEF Dated
  <2> QED
    BY <2>1, <2>2, <2>3, UpdatesStayTuned DEF OneTuning, RadioStill, TuningKept, Sampling,
       HoldsBlock, Revalidating, ReadLabels, Offering
<1>11. CASE WorkerLoop
  BY <1>11 DEF TypeOK, ProcessorInStep, Radio, Config, OneTuning, RadioStill, TuningKept,
       EpochNamesRadio, NoRetuneMixed, TunedTo, Dated, Updates, Offering, HoldsBlock, Sampling,
       Revalidating, ReadLabels, WorkerLoop
<1>12. ASSUME NEW who \in {"worker", "caller"}, BeginStep(who) PROVE (OneTuning)'
  BY <1>12 DEF TypeOK, ProcessorInStep, Radio, Config, OneTuning, RadioStill, TuningKept,
       EpochNamesRadio, NoRetuneMixed, TunedTo, Dated, Updates, Offering, HoldsBlock, Sampling,
       Revalidating, ReadLabels, BeginStep
<1>13. ASSUME NEW who \in {"worker", "caller"}, RefuseStep(who) PROVE (OneTuning)'
  BY <1>13 DEF TypeOK, ProcessorInStep, Radio, Config, OneTuning, RadioStill, TuningKept,
       EpochNamesRadio, NoRetuneMixed, TunedTo, Dated, Updates, Offering, HoldsBlock, Sampling,
       Revalidating, ReadLabels, RefuseStep
<1>14. CASE RetryOldestPending
  <2>1. /\ pc = "retry" /\ UNCHANGED <<outside, input, madeVars, queueVars>>
        /\ \/ pc' = "readEpoch" /\ reading' = "observe"
           \/ pc' = "retryCall" /\ pending # << >> /\ offered' = Head(pending)
    BY <1>14 DEF RetryOldestPending, Within, BeginRead
  <2>2. Updates' = Updates
    BY <2>1 DEF Updates
  <2>3. pc' = "retryCall" => offered' \in Updates
    <3>1. pending # << >> => 1 \in 1 .. Len(pending) /\ Head(pending) = pending[1]
      BY DEF TypeOK
    <3> QED
      BY <2>1, <3>1 DEF Updates
  <2>4. RadioStill'
    BY <2>1 DEF OneTuning, RadioStill, Sampling
  <2>5. \A u, v \in Updates' : Dated(u)' /\ (u.radio.epoch = v.radio.epoch => u.radio = v.radio)
    BY <2>1, <2>2, UpdatesStayTuned DEF EpochNamesRadio
  <2>6. Offering' => offered' \in Updates'
    BY <2>1, <2>2, <2>3 DEF Offering
  <2>7. Offering' => Dated(offered)' /\ \A u \in Updates' : u.radio.epoch = offered'.radio.epoch => u.radio = offered'.radio
    BY <2>5, <2>6 DEF Dated
  <2>8. TuningKept'
    BY <2>1, <2>2, <2>7, UpdatesStayTuned DEF OneTuning, TuningKept, Sampling, HoldsBlock,
       Revalidating, ReadLabels, Offering
  <2> QED
    BY <2>1, <2>2, <2>4, <2>8, UpdatesStayTuned DEF OneTuning
<1>15. CASE RetryAccepted
  <2>1. Updates' \subseteq Updates
    <3>1. CASE OfferedIsHead
      BY <1>15, <3>1, UpdatesRetried DEF RetryAccepted, OfferedIsHead
    <3>2. CASE ~OfferedIsHead
      BY <1>15, <3>2 DEF RetryAccepted, Updates
    <3> QED
      BY <3>1, <3>2
  <2>2. pc = "retryAccepted" /\ pc' = "readEpoch" /\ reading' = "observe"
        /\ UNCHANGED <<outside, input, offered>>
    BY <1>15 DEF RetryAccepted, Within, BeginRead
  <2> QED
    BY <2>1, <2>2, UpdatesStayTuned DEF OneTuning, RadioStill, TuningKept, Sampling, HoldsBlock,
       Revalidating, Offering
<1>16. CASE ReadEpoch
  BY <1>16 DEF TypeOK, ProcessorInStep, Radio, Config, OneTuning, RadioStill, TuningKept,
       EpochNamesRadio, NoRetuneMixed, TunedTo, Dated, Updates, Offering, HoldsBlock, Sampling,
       Revalidating, ReadLabels, ReadEpoch, ReadStep, Within
<1>17. CASE ReadRate
  BY <1>17 DEF TypeOK, ProcessorInStep, Radio, Config, OneTuning, RadioStill, TuningKept,
       EpochNamesRadio, NoRetuneMixed, TunedTo, Dated, Updates, Offering, HoldsBlock, Sampling,
       Revalidating, ReadLabels, ReadRate, ReadStep, Within
<1>18. CASE ReadLO
  <2>1. /\ pc = "readLO" /\ pc' = "readAgain" /\ snap' = [snap EXCEPT !.lo = radio.lo]
        /\ UNCHANGED <<outside, input, output, reading, observed>>
    BY <1>18 DEF ReadLO, ReadStep, Within
  <2>2. snap' = radio'
    <3>1. snap.epoch = radio.epoch /\ snap.rate = radio.rate
      BY <2>1 DEF OneTuning, RadioStill
    <3>2. snap \in Radio /\ radio \in Radio
      BY DEF TypeOK
    <3> QED
      BY <2>1, <3>1, <3>2 DEF Radio
  <2>3. Updates' = Updates
    BY <2>1 DEF Updates
  <2>4. RadioStill'
    BY <2>1, <2>2 DEF OneTuning, RadioStill, Sampling
  <2> QED
    BY <2>1, <2>3, <2>4, UpdatesStayTuned DEF OneTuning, TuningKept, Sampling, HoldsBlock,
       Revalidating, ReadLabels, Offering
<1>19. CASE ReadDone
  <2>1. /\ pc = "readAgain" /\ snap = radio /\ unbumped = 0
        /\ pc' = (IF reading = "observe" THEN "activate" ELSE "match")
        /\ observed' = (IF reading = "observe" THEN snap ELSE observed)
        /\ UNCHANGED <<outside, input, output, reading, snap>>
    BY <1>19 DEF ReadDone, Within, OneTuning, RadioStill
  <2>2. Updates' = Updates
    BY <2>1 DEF Updates
  <2>3. RadioStill'
    BY <2>1 DEF OneTuning, RadioStill, Sampling
  <2>4. HoldsBlock' => HoldsBlock
    BY <2>1 DEF TypeOK, HoldsBlock, Revalidating, ReadLabels
  <2>5. ~Sampling' /\ ~Offering' /\ pc' # "sampleLO"
    BY <2>1 DEF Sampling, Offering
  <2>6. TuningKept'
    BY <2>1, <2>2, <2>4, <2>5, UpdatesStayTuned DEF OneTuning, TuningKept
  <2> QED
    BY <2>1, <2>2, <2>3, <2>6, UpdatesStayTuned DEF OneTuning
<1>20. CASE ReadUnstable
  BY <1>20 DEF TypeOK, ProcessorInStep, Radio, Config, OneTuning, RadioStill, TuningKept,
       EpochNamesRadio, NoRetuneMixed, TunedTo, Dated, Updates, Offering, HoldsBlock, Sampling,
       Revalidating, ReadLabels, ReadUnstable, Fail, Within
<1>21. CASE RememberOrActivate
  <2>1. /\ pc = "activate" /\ pc' = "reserve" /\ observed = radio /\ unbumped = 0
        /\ UNCHANGED <<outside, output, readVars, blockVars>>
    BY <1>21 DEF RememberOrActivate, Within, OneTuning, RadioStill
  <2>2. /\ active' = radio' /\ \A t \in averaging'.seen : t.lo = active'.lo
        /\ \A u \in Updates' : Dated(u)'
        /\ EpochNamesRadio' /\ NoRetuneMixed'
    <3>1. CASE observed # active
      <4>1. Activate(radio)
        BY <1>21, <2>1, <3>1 DEF RememberOrActivate
      <4> QED
        BY <2>1, <3>1, <4>1, ActivatedTuned DEF NothingAveraged
    <3>2. CASE observed = active
      <4>1. UNCHANGED <<active, averaging>> /\ Updates' = Updates
        BY <1>21, <2>1, <3>2 DEF RememberOrActivate, Updates
      <4> QED
        BY <2>1, <3>2, <4>1, UpdatesStayTuned
    <3> QED
      BY <3>1, <3>2
  <2> QED
    BY <2>1, <2>2 DEF OneTuning, RadioStill, TuningKept, Sampling, HoldsBlock, Revalidating,
       ReadLabels, Offering, TypeOK, Radio
<1>22. CASE EnterBackpressure
  BY <1>22 DEF TypeOK, ProcessorInStep, Radio, Config, OneTuning, RadioStill, TuningKept,
       EpochNamesRadio, NoRetuneMixed, TunedTo, Dated, Updates, Offering, HoldsBlock, Sampling,
       Revalidating, ReadLabels, EnterBackpressure, EndStep
<1>23. CASE StartBlock
  BY <1>23 DEF TypeOK, ProcessorInStep, Radio, Config, OneTuning, RadioStill, TuningKept,
       EpochNamesRadio, NoRetuneMixed, TunedTo, Dated, Updates, Offering, HoldsBlock, Sampling,
       Revalidating, ReadLabels, StartBlock, Within
<1>24. CASE StepBound
  BY <1>24 DEF TypeOK, ProcessorInStep, Radio, Config, OneTuning, RadioStill, TuningKept,
       EpochNamesRadio, NoRetuneMixed, TunedTo, Dated, Updates, Offering, HoldsBlock, Sampling,
       Revalidating, ReadLabels, StepBound, EndStep
<1>25. CASE SampleEpoch
  BY <1>25 DEF TypeOK, ProcessorInStep, Radio, Config, OneTuning, RadioStill, TuningKept,
       EpochNamesRadio, NoRetuneMixed, TunedTo, Dated, Updates, Offering, HoldsBlock, Sampling,
       Revalidating, ReadLabels, SampleEpoch, Within
<1>26. CASE SampleLO
  BY <1>26 DEF TypeOK, ProcessorInStep, Radio, Config, OneTuning, RadioStill, TuningKept,
       EpochNamesRadio, NoRetuneMixed, TunedTo, Dated, Updates, Offering, HoldsBlock, Sampling,
       Revalidating, ReadLabels, SampleLO, Within
<1>27. CASE ValidBlock
  BY <1>27 DEF TypeOK, ProcessorInStep, Radio, Config, OneTuning, RadioStill, TuningKept,
       EpochNamesRadio, NoRetuneMixed, TunedTo, Dated, Updates, Offering, HoldsBlock, Sampling,
       Revalidating, ReadLabels, ValidBlock, Within
<1>28. CASE MovedBlock
  BY <1>28 DEF TypeOK, ProcessorInStep, Radio, Config, OneTuning, RadioStill, TuningKept,
       EpochNamesRadio, NoRetuneMixed, TunedTo, Dated, Updates, Offering, HoldsBlock, Sampling,
       Revalidating, ReadLabels, MovedBlock, Within, BeginRead
<1>29. CASE BrokenBlock
  BY <1>29 DEF TypeOK, ProcessorInStep, Radio, Config, OneTuning, RadioStill, TuningKept,
       EpochNamesRadio, NoRetuneMixed, TunedTo, Dated, Updates, Offering, HoldsBlock, Sampling,
       Revalidating, ReadLabels, BrokenBlock, ContinuityError, ConsumeIQ, Fail
<1>30. CASE AdoptMovedBlock
  <2>1. /\ pc = "match" /\ snap = radio /\ unbumped = 0
        /\ UNCHANGED <<outside, output, readVars>>
        /\ \/ pc' = "idle"
           \/ pc' = "process" /\ block' = block
    BY <1>30 DEF AdoptMovedBlock, Within, ContinuityError, Fail, OneTuning, RadioStill
  <2>2. /\ active' = radio' /\ \A t \in averaging'.seen : t.lo = active'.lo
        /\ \A u \in Updates' : Dated(u)'
        /\ EpochNamesRadio' /\ NoRetuneMixed'
    <3>1. CASE snap # active
      <4>1. Activate(radio)
        BY <1>30, <2>1, <3>1 DEF AdoptMovedBlock
      <4> QED
        BY <2>1, <3>1, <4>1, ActivatedTuned DEF NothingAveraged
    <3>2. CASE snap = active
      <4>1. UNCHANGED <<active, averaging>> /\ Updates' = Updates
        BY <1>30, <2>1, <3>2 DEF AdoptMovedBlock, Updates
      <4> QED
        BY <2>1, <3>2, <4>1, UpdatesStayTuned
    <3> QED
      BY <3>1, <3>2
  <2> QED
    BY <2>1, <2>2 DEF OneTuning, RadioStill, TuningKept, Sampling, HoldsBlock, Revalidating,
       ReadLabels, Offering, TypeOK, Radio
<1>31. CASE ProcessFrame
  <2>1. /\ pc = "process" /\ active = radio /\ HoldsBlock /\ terminal = "none"
        /\ UNCHANGED <<outside, active, readVars, pending, delivered>>
    BY <1>31 DEF ProcessFrame, OneTuning, RadioStill, HoldsBlock, ProcessorInStep
  <2>2. Updates' = Updates /\ \A u \in Updates : Dated(u)
    BY <2>1 DEF Updates, OneTuning, TuningKept
  <2>3. \A t \in Averaged.seen : t.lo = active.lo
    <3>1. \A k \in 1 .. FFTSize : TuningOf(block[k]).lo = active.lo
      BY <2>1 DEF OneTuning, TuningKept, TunedTo, TuningOf, BlockShape
    <3> QED
      BY <3>1 DEF Averaged, OneTuning, TuningKept
  <2>4. /\ pc' \in {"idle", "generate"} /\ averaging' \in {Averaged, NothingAveraged}
        /\ pc' = "generate" => offered' = Packets
    BY <1>31 DEF ProcessFrame, EndStep, Within
  <2>5. EpochNamesRadio' /\ NoRetuneMixed' /\ \A u \in Updates' : Dated(u)'
    BY <2>1, <2>2 DEF OneTuning, EpochNamesRadio, NoRetuneMixed, Dated
  <2>6. pc' = "generate" =>
          Dated(offered)' /\ \A u \in Updates' : u.radio.epoch = offered'.radio.epoch => u.radio = offered'.radio
    <3>1. Packets.radio = active /\ Packets.seen = Averaged.seen /\ active.epoch \in Int
      BY DEF Packets, TypeOK, Config, NoEpoch
    <3> QED
      BY <2>1, <2>2, <2>3, <2>4, <3>1 DEF Dated
  <2>7. RadioStill'
    BY <2>1, <2>4 DEF OneTuning, RadioStill, Sampling
  <2>8. \A t \in averaging'.seen : t.lo = active'.lo
    BY <2>1, <2>3, <2>4 DEF NothingAveraged
  <2>9. TuningKept'
    BY <2>4, <2>5, <2>6, <2>8 DEF TuningKept, Sampling, HoldsBlock, Revalidating, ReadLabels,
       Offering
  <2> QED
    BY <2>5, <2>7, <2>9 DEF OneTuning
<1>32. CASE GenerateUpdate
  <2>1. /\ pc = "generate" /\ pc' = "deliver"
        /\ UNCHANGED <<outside, readVars, blockVars, active, averaging, queueVars>>
    BY <1>32 DEF GenerateUpdate, Within
  <2>2. offered'.radio = offered.radio /\ offered'.seen = offered.seen
    BY <1>32 DEF GenerateUpdate, TypeOK, Update
  <2>3. Updates' = Updates
    BY <2>1 DEF Updates
  <2>4. RadioStill'
    BY <2>1 DEF OneTuning, RadioStill, Sampling
  <2>5. Dated(offered) => Dated(offered)'
    BY <2>1, <2>2 DEF Dated
  <2>6. TuningKept'
    BY <2>1, <2>2, <2>3, <2>5, UpdatesStayTuned DEF OneTuning, TuningKept, Sampling, HoldsBlock,
       Revalidating, ReadLabels, Offering
  <2> QED
    BY <2>1, <2>3, <2>4, <2>6, UpdatesStayTuned DEF OneTuning
<1>33. CASE LossOverflows
  <2>1. pc = "generate" /\ pc' = "idle" /\ UNCHANGED <<outside, input, output, readVars>>
    BY <1>33 DEF LossOverflows, Fail
  <2>2. Updates' = Updates
    BY <2>1 DEF Updates
  <2>3. Dated(offered) => Dated(offered)'
    BY <2>1 DEF Dated
  <2> QED
    BY <2>1, <2>2, <2>3, UpdatesStayTuned DEF OneTuning, RadioStill, TuningKept, Sampling,
       HoldsBlock, Revalidating, ReadLabels, Offering
<1>34. CASE Deliver
  BY <1>34 DEF TypeOK, ProcessorInStep, Radio, Config, OneTuning, RadioStill, TuningKept,
       EpochNamesRadio, NoRetuneMixed, TunedTo, Dated, Updates, Offering, HoldsBlock, Sampling,
       Revalidating, ReadLabels, Deliver, Within
<1>35. CASE Published
  BY <1>35 DEF TypeOK, ProcessorInStep, Radio, Config, OneTuning, RadioStill, TuningKept,
       EpochNamesRadio, NoRetuneMixed, TunedTo, Dated, Updates, Offering, HoldsBlock, Sampling,
       Revalidating, ReadLabels, Published, LeaveBackpressure, EndStep
<1>36. CASE Enqueue
  <2>1. /\ pc = "enqueue" /\ pc' = "idle"
        /\ pending' = Append(pending, offered) /\ delivered' = delivered
        /\ UNCHANGED <<outside, input, readVars>>
    BY <1>36 DEF Enqueue, EndStep, SlotReserved
  <2>2. Updates' = Updates \cup {offered}
    BY <2>1, UpdatesAdded
  <2>3. /\ Dated(offered)
        /\ \A u \in Updates : u.radio.epoch = offered.radio.epoch => u.radio = offered.radio
    BY <2>1 DEF OneTuning, TuningKept, Offering
  <2>4. /\ EpochNamesRadio' /\ NoRetuneMixed' /\ \A u \in Updates' : Dated(u)'
    BY <2>1, <2>2, <2>3 DEF OneTuning, TuningKept, EpochNamesRadio, NoRetuneMixed, Dated
  <2>5. RadioStill'
    BY <2>1 DEF OneTuning, RadioStill, Sampling
  <2>6. TuningKept'
    BY <2>1, <2>4
    DEF OneTuning, TuningKept, Sampling, HoldsBlock, Revalidating, ReadLabels, Offering
  <2> QED
    BY <2>4, <2>5, <2>6 DEF OneTuning
<1>37. CASE SinkAccepts
  <2>1. /\ pc \in {"retryCall", "deliverCall"} /\ pc' \in {"retryAccepted", "delivered"}
        /\ delivered' = Append(delivered, offered) /\ pending' = pending
        /\ UNCHANGED <<outside, input, readVars>>
    BY <1>37 DEF SinkAccepts, Within
  <2>2. Updates' = Updates \cup {offered}
    BY <2>1, UpdatesAdded
  <2>3. /\ Dated(offered)
        /\ \A u \in Updates : u.radio.epoch = offered.radio.epoch => u.radio = offered.radio
    BY <2>1 DEF OneTuning, TuningKept, Offering
  <2>4. /\ EpochNamesRadio' /\ NoRetuneMixed' /\ \A u \in Updates' : Dated(u)'
    BY <2>1, <2>2, <2>3 DEF OneTuning, TuningKept, EpochNamesRadio, NoRetuneMixed, Dated
  <2>5. RadioStill'
    BY <2>1 DEF OneTuning, RadioStill, Sampling
  <2>6. TuningKept'
    BY <2>1, <2>4
    DEF OneTuning, TuningKept, Sampling, HoldsBlock, Revalidating, ReadLabels, Offering
  <2> QED
    BY <2>4, <2>5, <2>6 DEF OneTuning
<1>38. CASE SinkRejects
  BY <1>38 DEF TypeOK, ProcessorInStep, Radio, Config, OneTuning, RadioStill, TuningKept,
       EpochNamesRadio, NoRetuneMixed, TunedTo, Dated, Updates, Offering, HoldsBlock, Sampling,
       Revalidating, ReadLabels, SinkRejects, Within, BeginRead
<1>39. CASE UNCHANGED vars
  BY <1>39 DEF TypeOK, ProcessorInStep, Radio, Config, OneTuning, RadioStill, TuningKept,
       EpochNamesRadio, NoRetuneMixed, TunedTo, Dated, Updates, Offering, HoldsBlock, Sampling,
       Revalidating, ReadLabels, vars
<1> QED
  BY <1>1, <1>2, <1>3, <1>4, <1>5, <1>6, <1>7, <1>8, <1>9, <1>10, <1>11, <1>12, <1>13, <1>14,
       <1>15, <1>16, <1>17, <1>18, <1>19, <1>20, <1>21, <1>22, <1>23, <1>24, <1>25, <1>26,
       <1>27, <1>28, <1>29, <1>30, <1>31, <1>32, <1>33, <1>34, <1>35, <1>36, <1>37, <1>38, <1>39
       DEF Next, Environment, Step, Sink

-----------------------------------------------------------------------------
(* The theorems about samples and updates.                                 *)

\* The inductive invariants hold initially.
LEMMA InitMore == Init => SampleInv /\ SoundInv /\ OrderInv /\ RadioInv
<1> SUFFICES ASSUME Init PROVE SampleInv /\ SoundInv /\ OrderInv /\ RadioInv
  OBVIOUS
<1> USE RuntimeAssumption
<1>1. /\ pc = "idle" /\ terminal = "none" /\ block = << >> /\ procCount = 0 /\ generated = 0
      /\ averaging = NothingAveraged /\ nextSeq = InitialSequence /\ unbumped = 0
      /\ pending = << >> /\ delivered = << >>
      /\ active = [radio EXCEPT !.epoch = NoEpoch] /\ radio \in [epoch : {0}, rate : Rates, lo : LOs]
  BY DEF Init
<1>2. Updates = {} /\ Retained = << >> /\ Len(pending) = 0 /\ Len(delivered) = 0
  BY <1>1 DEF Updates, Retained
<1>3. active.rate \in Rates /\ active.epoch = NoEpoch /\ radio.epoch = 0
  BY <1>1
<1>4. SampleInv
  BY <1>1 DEF Init, SampleInv, BlockEmpty, SamplesAccounted
<1>5. SoundInv
  BY <1>1, <1>2, <1>3 DEF SoundInv, AverageSound, StepSound, SoundUpdates, Sampling, Compared,
     Revalidating, ReadLabels, Offering, NothingAveraged
<1>6. OrderInv
  <2>1. InOrder
    BY <1>2 DEF InOrder, Numbered
  <2>2. nextSeq = (InitialSequence + generated) % SeqMod
    <3>1. (SeqMod * 0 + InitialSequence) % SeqMod = InitialSequence
      BY ModOfSum
    <3>2. SeqMod * 0 + InitialSequence = InitialSequence + generated
      BY <1>1
    <3> QED
      BY <1>1, <3>1, <3>2
  <2> QED
    BY <1>1, <1>2, <2>1, <2>2 DEF OrderInv, UpdatesNumbered, InHand
<1>7. RadioInv
  <2>1. RadioStill
    BY <1>1, <1>3 DEF RadioStill, Sampling, NoEpoch
  <2>2. TuningKept
    BY <1>1, <1>2 DEF TuningKept, Sampling, HoldsBlock, Revalidating, ReadLabels, Offering,
       NothingAveraged
  <2> QED
    BY <1>2, <2>1, <2>2 DEF RadioInv, OneTuning, EpochNamesRadio, NoRetuneMixed
<1> QED
  BY <1>4, <1>5, <1>6, <1>7

\* Every RF sample the runtime took is in a processed frame, in the block in
\* progress or was another reader's, also after a continuity failure.
THEOREM NoSampleUnaccounted == Spec => []SamplesAccounted
<1>1. IInv /\ SampleInv /\ [Next]_vars => SampleInv'
  BY SampleStep
<1>2. SampleInv => SamplesAccounted
  BY DEF SampleInv
<1>3. Init => SampleInv
  BY InitMore
<1> QED
  BY <1>1, <1>2, <1>3, InvariantHolds, PTL DEF Spec

\* Every update is the average of exactly its depth of frames, over consecutive
\* samples of one epoch, however the radio is retuned and whoever else reads
\* the RF model.
THEOREM UpdatesSound == Spec => []SoundUpdates
<1>1. IInv /\ SoundInv /\ [Next]_vars => SoundInv'
  BY SoundStep
<1>2. SoundInv => SoundUpdates
  BY DEF SoundInv
<1>3. Init => SoundInv
  BY InitMore
<1> QED
  BY <1>1, <1>2, <1>3, InvariantHolds, PTL DEF Spec

\* The numbering of the updates, for publishers that do not re-enter drain().
LEMMA OrderKept == Spec => []OrderInv
<1>1. IInv /\ OrderInv /\ [Next]_vars => OrderInv'
  BY OrderStep DEF OrderInv
<1>2. Init => OrderInv
  BY InitMore
<1> QED
  BY <1>1, <1>2, InvariantHolds, PTL DEF Spec

\* Consumers get the updates in order, none missing and none twice, unless a
\* publisher re-enters drain() while it is called.
THEOREM UpdatesInOrder == ~ReentrantSink => (Spec => []InOrder)
<1> SUFFICES ASSUME ~ReentrantSink PROVE Spec => []InOrder
  OBVIOUS
<1>1. OrderInv => InOrder
  BY DEF OrderInv
<1> QED
  BY <1>1, OrderKept, PTL

\* The tunings, with one thread for the setters and the steps.
LEMMA RadioKept == Spec => []RadioInv
<1>1. IInv /\ RadioInv /\ [Next]_vars => RadioInv'
  BY RadioStep DEF RadioInv
<1>2. Init => RadioInv
  BY InitMore
<1> QED
  BY <1>1, <1>2, InvariantHolds, PTL DEF Spec

\* When one thread calls the setters and step() in turn, all samples of an
\* update were taken at the LO that its packets name.
THEOREM RetunesNeverMixed == ~ConcurrentRadio => (Spec => []NoRetuneMixed)
<1> SUFFICES ASSUME ~ConcurrentRadio PROVE Spec => []NoRetuneMixed
  OBVIOUS
<1>1. RadioInv => NoRetuneMixed
  BY DEF RadioInv, OneTuning
<1> QED
  BY <1>1, RadioKept, PTL

\* And two updates of one epoch have one configuration.
THEOREM EpochsNameRadios == ~ConcurrentRadio => (Spec => []EpochNamesRadio)
<1> SUFFICES ASSUME ~ConcurrentRadio PROVE Spec => []EpochNamesRadio
  OBVIOUS
<1>1. RadioInv => EpochNamesRadio
  BY DEF RadioInv, OneTuning
<1> QED
  BY <1>1, RadioKept, PTL

-----------------------------------------------------------------------------
(* The refinement of UpdateStream.                                         *)

\* What a consumer is told of an update.
Ordinal(u) == [n |-> u.n, frames |-> u.frames, lost |-> u.lost]

OrdinalSet == [n : Nat, frames : Nat, lost : Nat]

\* Length and elements of what is told of a sequence of updates.
LEMMA OrdinalsFields ==
  ASSUME NEW s \in Seq(Update)
  PROVE  /\ Ordinals(s) \in Seq(OrdinalSet)
         /\ Len(Ordinals(s)) = Len(s)
         /\ \A k \in 1 .. Len(s) : Ordinals(s)[k] = Ordinal(s[k])
<1>1. \A k \in 1 .. Len(s) : Ordinal(s[k]) \in OrdinalSet
  <2>1. \A u \in Update : Ordinal(u) \in OrdinalSet
    BY DEF Ordinal, OrdinalSet, Update
  <2>2. \A k \in 1 .. Len(s) : s[k] \in Update
    OBVIOUS
  <2> QED
    BY <2>1, <2>2
<1>2. Ordinals(s) = [k \in 1 .. Len(s) |-> Ordinal(s[k])]
  BY DEF Ordinals, Ordinal
<1>3. Len(s) \in Nat
  OBVIOUS
<1> HIDE DEF Ordinal
<1> QED
  BY <1>1, <1>2, <1>3

\* Putting an update behind the others puts what is told of it behind the rest.
LEMMA OrdinalsAppend ==
  ASSUME NEW s \in Seq(Update), NEW u \in Update
  PROVE  Ordinals(Append(s, u)) = Append(Ordinals(s), Ordinal(u))
<1> DEFINE a == Append(s, u)
           o == Ordinals(s)
           b == Append(o, Ordinal(u))
<1>1. /\ a \in Seq(Update) /\ Len(a) = Len(s) + 1 /\ Len(s) \in Nat
      /\ a[Len(s) + 1] = u
      /\ \A k \in 1 .. Len(s) : a[k] = s[k]
  OBVIOUS
<1>2. o \in Seq(OrdinalSet) /\ Len(o) = Len(s) /\ \A k \in 1 .. Len(s) : o[k] = Ordinal(s[k])
  BY OrdinalsFields
<1>3. /\ Ordinals(a) \in Seq(OrdinalSet) /\ Len(Ordinals(a)) = Len(a)
      /\ \A k \in 1 .. Len(a) : Ordinals(a)[k] = Ordinal(a[k])
  BY <1>1, OrdinalsFields
<1>4. Ordinal(u) \in OrdinalSet
  BY DEF Ordinal, OrdinalSet, Update
<1> HIDE DEF a, o
<1>5. /\ b \in Seq(OrdinalSet) /\ Len(b) = Len(s) + 1 /\ b[Len(s) + 1] = Ordinal(u)
      /\ \A k \in 1 .. Len(s) : b[k] = o[k]
  BY <1>1, <1>2, <1>4
<1> HIDE DEF b
<1>6. \A k \in 1 .. Len(s) + 1 : Ordinals(a)[k] = b[k]
  <2> TAKE k \in 1 .. Len(s) + 1
  <2>1. k \in 1 .. Len(s) \/ k = Len(s) + 1
    BY <1>1
  <2>2. k \in 1 .. Len(a)
    BY <1>1
  <2> QED
    BY <1>1, <1>2, <1>3, <1>5, <2>1, <2>2
<1>7. Ordinals(a) = b
  BY <1>1, <1>3, <1>5, <1>6
<1> QED
  BY <1>7 DEF a, b, o

\* A part of a sequence.
LEMMA PartOfSequence ==
  ASSUME NEW s \in Seq(Update), NEW first \in 1 .. Len(s) + 1, NEW last \in 0 .. Len(s),
         NEW size, size = IF first <= last THEN last - first + 1 ELSE 0
  PROVE  /\ SubSeq(s, first, last) \in Seq(Update)
         /\ Len(SubSeq(s, first, last)) = size
         /\ size \in Nat
         /\ \A k \in 1 .. size :
               k + first - 1 \in 1 .. Len(s) /\ SubSeq(s, first, last)[k] = s[k + first - 1]
OBVIOUS

\* What is told of a part of a queue is that part of what is told.
LEMMA OrdinalsPart ==
  ASSUME NEW s \in Seq(Update), NEW first \in 1 .. Len(s) + 1, NEW last \in 0 .. Len(s)
  PROVE  Ordinals(SubSeq(s, first, last)) = SubSeq(Ordinals(s), first, last)
<1> DEFINE p == SubSeq(s, first, last)
           o == Ordinals(s)
           size == IF first <= last THEN last - first + 1 ELSE 0
<1>1. /\ p \in Seq(Update) /\ Len(p) = size /\ size \in Nat
      /\ \A k \in 1 .. size : k + first - 1 \in 1 .. Len(s) /\ p[k] = s[k + first - 1]
  BY PartOfSequence
<1>2. o \in Seq(OrdinalSet) /\ Len(o) = Len(s) /\ \A k \in 1 .. Len(s) : o[k] = Ordinal(s[k])
  BY OrdinalsFields
<1>3. /\ Ordinals(p) \in Seq(OrdinalSet) /\ Len(Ordinals(p)) = Len(p)
      /\ \A k \in 1 .. Len(p) : Ordinals(p)[k] = Ordinal(p[k])
  BY <1>1, OrdinalsFields
<1> HIDE DEF p, o
<1>4. /\ SubSeq(o, first, last) \in Seq(OrdinalSet) /\ Len(SubSeq(o, first, last)) = size
      /\ \A k \in 1 .. size : SubSeq(o, first, last)[k] = o[k + first - 1]
  BY <1>1, <1>2
<1>5. \A k \in 1 .. size : Ordinals(p)[k] = SubSeq(o, first, last)[k]
  <2> TAKE k \in 1 .. size
  <2> HIDE DEF size
  <2> QED
    BY <1>1, <1>2, <1>3, <1>4
<1> HIDE DEF size
<1>6. Ordinals(p) = SubSeq(o, first, last)
  BY <1>1, <1>3, <1>4, <1>5
<1> QED
  BY <1>6 DEF p, o

\* Sequences that are joined.
LEMMA JoinedSequences ==
  ASSUME NEW s \in Seq(Update), NEW t \in Seq(Update)
  PROVE  /\ s \o t \in Seq(Update) /\ Len(s \o t) = Len(s) + Len(t)
         /\ Len(s) \in Nat /\ Len(t) \in Nat
         /\ \A k \in 1 .. Len(s) + Len(t) :
               IF k <= Len(s) THEN (s \o t)[k] = s[k] ELSE (s \o t)[k] = t[k - Len(s)]
OBVIOUS

\* What is told of joined sequences is joined.
LEMMA OrdinalsJoined ==
  ASSUME NEW s \in Seq(Update), NEW t \in Seq(Update)
  PROVE  Ordinals(s \o t) = Ordinals(s) \o Ordinals(t)
<1> DEFINE j == s \o t
           o == Ordinals(s)
           q == Ordinals(t)
<1>1. /\ j \in Seq(Update) /\ Len(j) = Len(s) + Len(t) /\ Len(s) \in Nat /\ Len(t) \in Nat
      /\ \A k \in 1 .. Len(s) + Len(t) :
            IF k <= Len(s) THEN j[k] = s[k] ELSE j[k] = t[k - Len(s)]
  BY JoinedSequences
<1>2. /\ o \in Seq(OrdinalSet) /\ Len(o) = Len(s) /\ \A k \in 1 .. Len(s) : o[k] = Ordinal(s[k])
      /\ q \in Seq(OrdinalSet) /\ Len(q) = Len(t) /\ \A k \in 1 .. Len(t) : q[k] = Ordinal(t[k])
  BY OrdinalsFields
<1>3. /\ Ordinals(j) \in Seq(OrdinalSet) /\ Len(Ordinals(j)) = Len(j)
      /\ \A k \in 1 .. Len(j) : Ordinals(j)[k] = Ordinal(j[k])
  BY <1>1, OrdinalsFields
<1> HIDE DEF j, o, q
<1>4. /\ o \o q \in Seq(OrdinalSet) /\ Len(o \o q) = Len(s) + Len(t)
      /\ \A k \in 1 .. Len(s) + Len(t) :
            IF k <= Len(s) THEN (o \o q)[k] = o[k] ELSE (o \o q)[k] = q[k - Len(s)]
  BY <1>1, <1>2
<1>5. \A k \in 1 .. Len(s) + Len(t) : Ordinals(j)[k] = (o \o q)[k]
  <2> TAKE k \in 1 .. Len(s) + Len(t)
  <2>1. CASE k <= Len(s)
    BY <1>1, <1>2, <1>3, <1>4, <2>1
  <2>2. CASE k > Len(s)
    <3>1. Len(s) \in Nat /\ Len(t) \in Nat
      OBVIOUS
    <3>2. k - Len(s) \in 1 .. Len(t) /\ ~(k <= Len(s))
      BY <2>2, <3>1
    <3>3. j[k] = t[k - Len(s)] /\ (o \o q)[k] = q[k - Len(s)]
      BY <1>1, <1>4, <3>2
    <3>4. Ordinals(j)[k] = Ordinal(j[k])
      BY <1>1, <1>3
    <3>5. q[k - Len(s)] = Ordinal(t[k - Len(s)])
      BY <1>2, <3>2
    <3> QED
      BY <3>3, <3>4, <3>5
  <2>3. k <= Len(s) \/ k > Len(s)
    <3>1. Len(s) \in Nat /\ Len(t) \in Nat
      OBVIOUS
    <3> QED
      BY <3>1
  <2> QED
    BY <2>1, <2>2, <2>3
<1>6. Ordinals(j) = o \o q
  BY <1>1, <1>3, <1>4, <1>5
<1> QED
  BY <1>6 DEF j, o, q

\* The updates that wait, outside a retry and without and with a new one.
LEMMA WaitingQueue ==
  ASSUME TypeOK, pc # "retryAccepted", ~InHand
  PROVE  Waiting = pending
BY DEF TypeOK, Waiting, Retained

\* A step that moves no update, and neither makes nor loses a frame.
LEMMA NotStreamed ==
  ASSUME UNCHANGED <<pending, delivered, generated, fia, unreportedFrames>>,
         pc = "retryAccepted" <=> pc' = "retryAccepted",
         InHand <=> InHand',
         InHand => offered' = offered
  PROVE  UNCHANGED Stream!streamVars
<1>1. Waiting' = Waiting
  BY DEF Waiting, Retained
<1>2. Ordinals(Waiting)' = Ordinals(Waiting) /\ Ordinals(delivered)' = Ordinals(delivered)
  BY <1>1 DEF Ordinals
<1> QED
  BY <1>2 DEF Stream!streamVars

\* A new configuration discards the average in progress, if there is one.
LEMMA ActivateStreamed ==
  ASSUME TypeOK, NEW r, Activate(r), UNCHANGED <<generated, pending, delivered>>,
         pc # "retryAccepted" /\ pc' # "retryAccepted" /\ ~InHand /\ ~InHand'
  PROVE  [Stream!Next]_(Stream!streamVars)
<1>1. Waiting' = Waiting
  BY DEF Waiting, Retained
<1>2. Ordinals(Waiting)' = Ordinals(Waiting) /\ Ordinals(delivered)' = Ordinals(delivered)
  BY <1>1 DEF Ordinals
<1>3. unreportedFrames' = unreportedFrames + fia /\ fia' = 0
  BY DEF Activate, OweDiscarded
<1>4. CASE fia > 0
  BY <1>2, <1>3, <1>4 DEF Stream!Next, Stream!Discard
<1>5. CASE fia = 0
  BY <1>2, <1>3, <1>5 DEF Stream!streamVars, TypeOK
<1> QED
  BY <1>4, <1>5 DEF TypeOK

\* Taking one update is taking the oldest.
LEMMA TakeOne ==
  ASSUME NEW s \in Seq(Update), NEW d \in Seq(Update), s # << >>
  PROVE  /\ 1 \in 1 .. Len(s)
         /\ d \o SubSeq(s, 1, 1) = Append(d, Head(s))
         /\ SubSeq(s, 1 + 1, Len(s)) = Tail(s)
<1>1. 1 \in 1 .. Len(s)
  OBVIOUS
<1>2. d \o SubSeq(s, 1, 1) = Append(d, Head(s))
  OBVIOUS
<1>3. SubSeq(s, 1 + 1, Len(s)) = Tail(s)
  OBVIOUS
<1> QED
  BY <1>1, <1>2, <1>3

\* A consumer takes the oldest updates that wait.
LEMMA TakeStreamed ==
  ASSUME NEW w \in Seq(Update), Waiting = w, delivered \in Seq(Update),
         NEW count \in 1 .. Len(w),
         delivered' = delivered \o SubSeq(w, 1, count),
         Waiting' = SubSeq(w, count + 1, Len(w)),
         UNCHANGED <<generated, fia, unreportedFrames>>
  PROVE  Stream!Next
<1> DEFINE O == Ordinals(w)
<1>1. Len(O) = Len(w) /\ Len(w) \in Nat
  BY OrdinalsFields
<1>2. Ordinals(SubSeq(w, 1, count)) = SubSeq(O, 1, count)
  <2>1. 1 \in 1 .. Len(w) + 1 /\ count \in 0 .. Len(w)
    BY <1>1
  <2> QED
    BY <2>1, OrdinalsPart
<1>3. Ordinals(SubSeq(w, count + 1, Len(w))) = SubSeq(O, count + 1, Len(O))
  <2>1. count + 1 \in 1 .. Len(w) + 1 /\ Len(w) \in 0 .. Len(w)
    BY <1>1
  <2> QED
    BY <1>1, <2>1, OrdinalsPart
<1>4. SubSeq(w, 1, count) \in Seq(Update)
  OBVIOUS
<1>5. Ordinals(delivered)' = Ordinals(delivered) \o SubSeq(O, 1, count)
  <2>1. Ordinals(delivered)' = Ordinals(delivered \o SubSeq(w, 1, count))
    BY DEF Ordinals
  <2> QED
    BY <1>2, <1>4, <2>1, OrdinalsJoined
<1>6. Ordinals(Waiting)' = SubSeq(O, count + 1, Len(O))
  <2>1. Ordinals(Waiting)' = Ordinals(SubSeq(w, count + 1, Len(w)))
    BY DEF Ordinals
  <2> QED
    BY <1>3, <2>1
<1>7. Stream!Take(count)
  BY <1>1, <1>5, <1>6 DEF Stream!Take
<1> QED
  BY <1>1, <1>7 DEF Stream!Next

\* Every step of the runtime is a step of the stream, or not seen by it.
LEMMA StreamStep ==
  ASSUME IInv, ~ReentrantSink, UpdatesNumbered, [Next]_vars
  PROVE  [Stream!Next]_(Stream!streamVars)
<1> USE RuntimeAssumption DEF IInv, outside, control, input, output, radioVars, rfVars, threadVars,
       readVars, blockVars, procVars, madeVars, consumed, queueVars
<1>1. CASE SetLO
  BY <1>1, NotStreamed DEF SetLO, Retuned, InHand
<1>2. CASE SetSampleRate
  BY <1>2, NotStreamed DEF SetSampleRate, Retuned, InHand
<1>3. CASE SetOther
  BY <1>3, NotStreamed DEF SetOther, Retuned, InHand
<1>4. CASE BumpEpoch
  BY <1>4, NotStreamed DEF BumpEpoch, InHand
<1>5. CASE ForeignRead
  BY <1>5, NotStreamed DEF ForeignRead, InHand
<1>6. CASE SetPublisher
  BY <1>6, NotStreamed DEF SetPublisher, InHand
<1>7. CASE Start
  BY <1>7, NotStreamed DEF Start, InHand
<1>8. CASE Stop
  BY <1>8, NotStreamed DEF Stop, InHand
<1>9. CASE CallStep
  BY <1>9, NotStreamed DEF CallStep, InHand
<1>10. CASE Drain
  <2>1. pc = "idle" /\ pc' = pc
    BY <1>10 DEF Drain, DrainBoundary
  <2>2. PICK count \in 1 .. Len(pending) : TakePending(count)
    BY <1>10 DEF Drain
  <2>3. pending \in Seq(Update) /\ Waiting = pending /\ delivered \in Seq(Update)
    BY <2>1, WaitingQueue DEF TypeOK, InHand
  <2>4. pending' \in Seq(Update) /\ Waiting' = pending'
    <3>1. pending' = SubSeq(pending, count + 1, Len(pending))
      BY <2>2 DEF TakePending
    <3>2. pending' \in Seq(Update)
      BY <2>3, <3>1
    <3> QED
      BY <2>1, <3>2 DEF Waiting, Retained, InHand
  <2>5. UNCHANGED <<generated, fia, unreportedFrames>>
    BY <1>10 DEF Drain
  <2> QED
    BY <2>2, <2>3, <2>4, <2>5, TakeStreamed DEF TakePending
<1>11. CASE WorkerLoop
  BY <1>11, NotStreamed DEF WorkerLoop, InHand
<1>12. ASSUME NEW who \in {"worker", "caller"}, BeginStep(who) PROVE [Stream!Next]_(Stream!streamVars)
  BY <1>12, NotStreamed DEF BeginStep, InHand
<1>13. ASSUME NEW who \in {"worker", "caller"}, RefuseStep(who) PROVE [Stream!Next]_(Stream!streamVars)
  BY <1>13, NotStreamed DEF RefuseStep, InHand
<1>14. CASE RetryOldestPending
  BY <1>14, NotStreamed DEF RetryOldestPending, Within, BeginRead, InHand
<1>15. CASE RetryAccepted
  <2>1. /\ pc = "retryAccepted" /\ pc' = "readEpoch" /\ OfferedIsHead
        /\ pending' = Tail(pending)
        /\ UNCHANGED <<delivered, generated, fia, unreportedFrames, offered>>
    BY <1>15 DEF RetryAccepted, OfferedIsHead, Within, UpdatesNumbered
  <2>2. Waiting' = Waiting
    BY <2>1 DEF Waiting, Retained, InHand
  <2>3. Ordinals(Waiting)' = Ordinals(Waiting) /\ Ordinals(delivered)' = Ordinals(delivered)
    BY <2>1, <2>2 DEF Ordinals
  <2> QED
    BY <2>1, <2>3 DEF Stream!streamVars
<1>16. CASE ReadEpoch
  BY <1>16, NotStreamed DEF ReadEpoch, ReadStep, Within, InHand
<1>17. CASE ReadRate
  BY <1>17, NotStreamed DEF ReadRate, ReadStep, Within, InHand
<1>18. CASE ReadLO
  BY <1>18, NotStreamed DEF ReadLO, ReadStep, Within, InHand
<1>19. CASE ReadDone
  BY <1>19, NotStreamed DEF ReadDone, SnapshotIsStable, Within, InHand
<1>20. CASE ReadUnstable
  BY <1>20, NotStreamed DEF ReadUnstable, Fail, Within, InHand
<1>21. CASE RememberOrActivate
  <2>1. /\ pc = "activate" /\ pc' = "reserve"
        /\ UNCHANGED <<generated, pending, delivered>>
    BY <1>21 DEF RememberOrActivate, Within
  <2>2. CASE observed # active
    BY <1>21, <2>1, <2>2, ActivateStreamed DEF RememberOrActivate, InHand
  <2>3. CASE observed = active
    BY <1>21, <2>1, <2>3, NotStreamed DEF RememberOrActivate, InHand
  <2> QED
    BY <2>2, <2>3
<1>22. CASE EnterBackpressure
  BY <1>22, NotStreamed DEF EnterBackpressure, EndStep, InHand
<1>23. CASE StartBlock
  BY <1>23, NotStreamed DEF StartBlock, Within, InHand
<1>24. CASE StepBound
  BY <1>24, NotStreamed DEF StepBound, EndStep, InHand
<1>25. CASE SampleEpoch
  BY <1>25, NotStreamed DEF SampleEpoch, Within, InHand
<1>26. CASE SampleLO
  BY <1>26, NotStreamed DEF SampleLO, Within, InHand
<1>27. CASE ValidBlock
  BY <1>27, NotStreamed DEF ValidBlock, Within, InHand
<1>28. CASE MovedBlock
  BY <1>28, NotStreamed DEF MovedBlock, Within, BeginRead, InHand
<1>29. CASE BrokenBlock
  BY <1>29, NotStreamed DEF BrokenBlock, ContinuityError, ConsumeIQ, Fail, InHand
<1>30. CASE AdoptMovedBlock
  <2>1. /\ pc = "match" /\ pc' \in {"idle", "process"}
        /\ UNCHANGED <<generated, pending, delivered>>
    BY <1>30 DEF AdoptMovedBlock, Within, ContinuityError, Fail
  <2>2. CASE snap # active
    BY <1>30, <2>1, <2>2, ActivateStreamed DEF AdoptMovedBlock, InHand
  <2>3. CASE snap = active
    BY <1>30, <2>1, <2>3, NotStreamed DEF AdoptMovedBlock, InHand
  <2> QED
    BY <2>2, <2>3
<1>31. CASE ProcessFrame
  <2>1. /\ pc = "process" /\ pc' \in {"idle", "generate"} /\ fia' = fia + 1
        /\ UNCHANGED <<generated, pending, delivered, unreportedFrames>>
    BY <1>31 DEF ProcessFrame, EndStep, Within
  <2>2. Waiting' = Waiting
    BY <2>1 DEF Waiting, Retained, InHand
  <2>3. Ordinals(Waiting)' = Ordinals(Waiting) /\ Ordinals(delivered)' = Ordinals(delivered)
    BY <2>1, <2>2 DEF Ordinals
  <2> QED
    BY <2>1, <2>3 DEF Stream!Next, Stream!Absorb
<1>32. CASE GenerateUpdate
  <2>1. /\ pc = "generate" /\ pc' = "deliver" /\ fia' = 0 /\ unreportedFrames' = 0
        /\ generated' = generated + 1 /\ UNCHANGED <<pending, delivered>>
        /\ offered' = [offered EXCEPT !.lost = unreportedFrames, !.events = unreportedEvents]
    BY <1>32 DEF GenerateUpdate, Within
  <2>2. Len(pending) < Capacity /\ fia > 0 /\ offered.frames = fia /\ offered.n = generated + 1
    <3>1. ~(Len(pending) >= Capacity) /\ pending \in Seq(Update)
      BY <2>1 DEF TypeOK, SlotReserved, QueueFull
    <3>2. Len(pending) \in Nat /\ Capacity \in Nat
      BY <3>1
    <3> QED
      BY <2>1, <3>1, <3>2 DEF ProcessorInStep, UpdatesNumbered
  <2>3. /\ offered' \in Update
        /\ Ordinal(offered') = [n |-> generated + 1, frames |-> fia, lost |-> unreportedFrames]
    BY <2>1, <2>2 DEF TypeOK, Update, Ordinal
  <2>4. pending \in Seq(Update) /\ Waiting = pending
    BY <2>1, WaitingQueue DEF TypeOK, InHand
  <2>5. Waiting' = Append(pending, offered')
    BY <2>1, <2>3, <2>4 DEF Waiting, Retained, InHand
  <2>6. Ordinals(Waiting)' = Append(Ordinals(pending), Ordinal(offered'))
    <3>1. Ordinals(Waiting)' = Ordinals(Append(pending, offered'))
      BY <2>5 DEF Ordinals
    <3> QED
      BY <2>3, <2>4, <3>1, OrdinalsAppend
  <2>7. Ordinals(delivered)' = Ordinals(delivered)
    BY <2>1 DEF Ordinals
  <2>8. Len(Ordinals(pending)) = Len(pending)
    BY <2>4, OrdinalsFields
  <2>9. Stream!Emit
    BY <2>1, <2>2, <2>3, <2>4, <2>6, <2>7, <2>8 DEF Stream!Emit
  <2> QED
    BY <2>9 DEF Stream!Next
<1>33. CASE LossOverflows
  BY <1>33, NotStreamed DEF LossOverflows, Fail, InHand
<1>34. CASE Deliver
  BY <1>34, NotStreamed DEF Deliver, Within, InHand
<1>35. CASE Published
  BY <1>35, NotStreamed DEF Published, LeaveBackpressure, EndStep, InHand
<1>36. CASE Enqueue
  <2>1. /\ pc = "enqueue" /\ pc' = "idle" /\ pending' = Append(pending, offered)
        /\ UNCHANGED <<generated, fia, unreportedFrames, delivered>>
    BY <1>36 DEF Enqueue, EndStep, SlotReserved
  <2>2. Waiting' = Waiting
    BY <2>1 DEF Waiting, Retained, InHand, TypeOK
  <2>3. Ordinals(Waiting)' = Ordinals(Waiting) /\ Ordinals(delivered)' = Ordinals(delivered)
    BY <2>1, <2>2 DEF Ordinals
  <2> QED
    BY <2>1, <2>3 DEF Stream!streamVars
<1>37. CASE SinkAccepts
  <2>1. /\ delivered' = Append(delivered, offered) /\ pending' = pending /\ offered' = offered
        /\ UNCHANGED <<generated, fia, unreportedFrames>>
    BY <1>37 DEF SinkAccepts
  <2>2. pending \in Seq(Update) /\ delivered \in Seq(Update) /\ offered \in Update
    BY DEF TypeOK
  <2>3. CASE pc = "retryCall"
    <3>1. pc' = "retryAccepted" /\ pending # << >> /\ offered = Head(pending)
      BY <1>37, <2>3 DEF SinkAccepts, Within, UpdatesNumbered
    <3>2. Waiting = pending /\ Waiting' = Tail(pending)
      <4>1. Tail(pending) \in Seq(Update)
        BY <2>2, <3>1
      <4> QED
        BY <2>1, <2>2, <2>3, <3>1, <4>1 DEF Waiting, Retained, InHand
    <3>3. /\ 1 \in 1 .. Len(pending)
          /\ delivered' = delivered \o SubSeq(pending, 1, 1)
          /\ SubSeq(pending, 1 + 1, Len(pending)) = Tail(pending)
      BY <2>1, <2>2, <3>1, TakeOne
    <3> QED
      BY <2>1, <2>2, <3>2, <3>3, TakeStreamed
  <2>4. CASE pc = "deliverCall"
    <3>1. pc' = "delivered" /\ pending = << >>
      BY <1>37, <2>4 DEF SinkAccepts, Within, UpdatesNumbered
    <3>2. Waiting = <<offered>> /\ Waiting' = << >>
      BY <2>1, <2>4, <3>1 DEF Waiting, Retained, InHand
    <3>3. /\ <<offered>> \in Seq(Update) /\ <<offered>> # << >>
          /\ Head(<<offered>>) = offered /\ Tail(<<offered>>) = << >>
      BY <2>2
    <3>4. /\ 1 \in 1 .. Len(<<offered>>)
          /\ delivered' = delivered \o SubSeq(<<offered>>, 1, 1)
          /\ SubSeq(<<offered>>, 1 + 1, Len(<<offered>>)) = << >>
      BY <2>1, <2>2, <3>3, TakeOne
    <3> QED
      BY <2>1, <2>2, <3>2, <3>3, <3>4, TakeStreamed
  <2> QED
    BY <1>37, <2>3, <2>4 DEF SinkAccepts
<1>38. CASE SinkRejects
  BY <1>38, NotStreamed DEF SinkRejects, Within, BeginRead, InHand
<1>39. CASE UNCHANGED vars
  BY <1>39, NotStreamed DEF vars, InHand
<1> QED
  BY <1>1, <1>2, <1>3, <1>4, <1>5, <1>6, <1>7, <1>8, <1>9, <1>10, <1>11, <1>12, <1>13, <1>14,
       <1>15, <1>16, <1>17, <1>18, <1>19, <1>20, <1>21, <1>22, <1>23, <1>24, <1>25, <1>26,
       <1>27, <1>28, <1>29, <1>30, <1>31, <1>32, <1>33, <1>34, <1>35, <1>36, <1>37, <1>38, <1>39
       DEF Next, Environment, Step, Sink

\* The initial states of the runtime are those of the stream.
LEMMA InitStreamed == Init => Stream!Init
<1> SUFFICES ASSUME Init PROVE Stream!Init
  OBVIOUS
<1>1. Ordinals(<< >>) = << >>
  <2>1. << >> \in Seq(Update)
    OBVIOUS
  <2>2. Ordinals(<< >>) \in Seq(OrdinalSet) /\ Len(Ordinals(<< >>)) = 0
    BY <2>1, OrdinalsFields
  <2> QED
    BY <2>2
<1>2. pc = "idle" /\ pending = << >> /\ delivered = << >>
  BY DEF Init
<1>3. Waiting = << >>
  BY <1>2 DEF Waiting, Retained, InHand
<1> QED
  BY <1>1, <1>2, <1>3 DEF Init, Stream!Init

\* The runtime, with its retries, retunes, swapped publishers, restarts and
\* drains, implements the update stream, unless a publisher re-enters drain().
THEOREM RuntimeImplementsStream == ~ReentrantSink => (Spec => ImplementsStream)
<1> SUFFICES ASSUME ~ReentrantSink PROVE Spec => ImplementsStream
  OBVIOUS
<1>1. IInv /\ OrderInv /\ [Next]_vars => [Stream!Next]_(Stream!streamVars)
  BY StreamStep DEF OrderInv
<1>2. Init => Stream!Init
  BY InitStreamed
<1> QED
  BY <1>1, <1>2, InvariantHolds, OrderKept, PTL DEF Spec, ImplementsStream, Stream!Spec

=============================================================================
