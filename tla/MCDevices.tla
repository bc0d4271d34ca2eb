------------------------------ MODULE MCDevices ------------------------------
(* The device models, one of them in each behaviour: the interrupt            *)
(* controllers, timers, serial port and network card of the Windows backend,  *)
(* the serial ports of the other two, and the virtio registers, chains, disks *)
(* and network cards of all three.                                            *)
EXTENDS WhpIrq, WhpTimers, WhpUart, WhpNet, LevelUart, VirtioMmio, OverlayDisk, NetFrames,
        VirtioChain

VARIABLE part

\* A part that does not run is in one initial state.
DevicesInit ==
  /\ part \in {"irq", "hpet", "pit", "uart", "tx", "net", "serial", "mmio", "disk", "frames", "chain"}
  /\ IrqInit /\ TmrInit /\ UartInit /\ NetInit /\ SerialInit /\ MmioInit /\ OverlayInit /\ NetFramesInit /\ ChainInit
  /\ part # "serial" => port.kind = "kvm" /\ port.echo = FALSE
  /\ part # "mmio" => dev.kind = "rng"
  /\ part # "disk" => disk.backend = "whp" /\ disk.overlaid = FALSE /\ disk.read_only = FALSE
  /\ part # "frames" => nic.kind = "kvm_tap"
  /\ part # "chain" => job.op = "none"

whpVars == <<irqVars, tmrVars, uartVars, netVars>>
virtioVars == <<serialVars, mmioVars, overlayVars, netFrameVars, chainVars>>

DevicesNext ==
  /\ UNCHANGED part
  /\ \/ /\ \/ part = "irq" /\ IrqNext /\ UNCHANGED <<tmrVars, uartVars, netVars>>
           \/ part = "hpet" /\ HpetNext /\ UNCHANGED <<irqVars, uartVars, netVars>>
           \/ part = "pit" /\ PitNext /\ UNCHANGED <<irqVars, uartVars, netVars>>
           \/ part = "uart" /\ UartNext /\ UNCHANGED <<irqVars, tmrVars, netVars>>
           \/ part = "tx" /\ TxNext /\ UNCHANGED <<irqVars, tmrVars, netVars>>
           \/ part = "net" /\ NetNext /\ UNCHANGED <<irqVars, tmrVars, uartVars>>
        /\ UNCHANGED virtioVars
     \/ /\ \/ part = "serial" /\ SerialNext /\ UNCHANGED <<mmioVars, overlayVars, netFrameVars, chainVars>>
           \/ part = "mmio" /\ MmioNext /\ UNCHANGED <<serialVars, overlayVars, netFrameVars, chainVars>>
           \/ part = "disk" /\ OverlayNext /\ UNCHANGED <<serialVars, mmioVars, netFrameVars, chainVars>>
           \/ part = "frames" /\ NetFramesNext /\ UNCHANGED <<serialVars, mmioVars, overlayVars, chainVars>>
           \/ part = "chain" /\ ChainNext /\ UNCHANGED <<serialVars, mmioVars, overlayVars, netFrameVars>>
        /\ UNCHANGED whpVars

\* The state of the part that runs: the other variables never change.
View ==
  <<part,
    CASE part = "irq" -> irqVars
      [] part \in {"hpet", "pit"} -> tmrVars
      [] part \in {"uart", "tx"} -> uartVars
      [] part = "net" -> netVars
      [] part = "serial" -> serialVars
      [] part = "mmio" -> mmioVars
      [] part = "disk" -> overlayVars
      [] part = "frames" -> netFrameVars
      [] part = "chain" -> chainVars>>

DevicesSpec == DevicesInit /\ [][DevicesNext]_<<whpVars, virtioVars, part>>
=============================================================================
