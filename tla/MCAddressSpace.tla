---------------------------- MODULE MCAddressSpace ----------------------------
\* The shell (1), with a note that is not loaded, and a program whose text and
\* data share a page (2); text starts with the file, data lie behind.
EXTENDS AddressSpace

Segment(flags, offset, vaddr, filesz, memsz) ==
    [load |-> TRUE, flags |-> flags, offset |-> offset, vaddr |-> vaddr,
     filesz |-> filesz, memsz |-> memsz]
Note == [load |-> FALSE, flags |-> "R", offset |-> 0, vaddr |-> 0, filesz |-> 1, memsz |-> 1]

MCPrograms ==
    << <<Segment("RX", 0, 0, 2, 2), Note, Segment("RW", 3, 3, 1, 1)>>,
       <<Segment("RX", 0, 0, 3, 3), Segment("RW", 3, 3, 1, 1)>> >>
\* A word of the data, and one of the second page of the heap.
MCStores == {3, 6}
===============================================================================
